---- MODULE Spec2Model ----
(***************************************************************************)
(* Position-transform algebra of slate (Path / Point rebasing through      *)
(* operations) and the pending-text-diff layer of slate-dom                *)
(* (StringDiff normalisation and merging, pending point / range rebasing). *)
(*                                                                         *)
(* Paths are sequences of naturals; the source's 0-based index i is the    *)
(* TLA+ index i + 1.  A nullable result (Path | null, Point | null, ...)   *)
(* is a set with at most one element: Null is the empty set, Some(v) is    *)
(* {v}.  Strings are sequences of one-character strings.                   *)
(***************************************************************************)
EXTENDS Integers, Sequences, FiniteSets, TLC

VARIABLES
  tree,   \* the document: a node [mark, leaf, kids], the root's kids are the top level
  path,   \* the path being rebased through the operation log (Null once destroyed)
  last,   \* the last operation applied to the tree and the path before it
  inp,    \* input of a pure function under check
  out,    \* its result
  aux,    \* a second result: the other implementation's, or the previous application's
  pc      \* "ready" before the function is applied, "done" after

vars == <<tree, path, last, inp, out, aux, pc>>

----------------------------------------------------------------------------
(* Bounds *)

\* paths drawn for Path.transform: at most MaxLen indices, each in 0..MaxIndex
MaxLen == 2
MaxIndex == 2
\* split / merge positions drawn for Path.transform: 0..MaxPosition
MaxPosition == 2
\* string diffs: target texts of at most MaxText characters, replacement texts of
\* at most MaxInsert characters
MaxText == 2
MaxInsert == 2
\* points: paths of 1..MaxPointLen indices in 0..MaxPointIndex, offsets and
\* split / merge positions in 0..MaxOffset, operation texts of at most MaxOpText
\* characters
MaxPointLen == 2
MaxPointIndex == 1
MaxOffset == 2
MaxOpText == 2
\* pending ranges: offsets, positions and diff bounds in 0..MaxRangeOffset, texts
\* of pending diffs and of text operations of at most MaxDiffText characters
MaxRangeOffset == 2
MaxDiffText == 1
\* documents: at most MaxNodes nodes below the root, at most MaxDepth levels, and
\* split / merge positions of text leaves in 0..MaxTextPosition
MaxNodes == 4
MaxDepth == 3
MaxTextPosition == 1

----------------------------------------------------------------------------
(* Nullable values *)

Null == {}
Some(v) == {v}
Get(s) == CHOOSE v \in s : TRUE

Min(a, b) == IF a < b THEN a ELSE b
Max(a, b) == IF a > b THEN a ELSE b

----------------------------------------------------------------------------
(* Path algebra: packages/slate/src/interfaces/path.ts *)

\* a[i] < b[i] of the source (0-based); false when either index is undefined
IdxLt(a, b, i) == i >= 0 /\ i < Len(a) /\ i < Len(b) /\ a[i + 1] < b[i + 1]

\* outPath[i] += d
Shift(p, i, d) == [p EXCEPT ![i + 1] = @ + d]

RECURSIVE commonDepthFrom(_, _, _)
commonDepthFrom(p, another, i) ==
  IF i < Min(Len(p), Len(another)) /\ p[i + 1] = another[i + 1]
  THEN commonDepthFrom(p, another, i + 1)
  ELSE i

commonDepth(p, another) == commonDepthFrom(p, another, 0)

equals(p, another) ==
  Len(p) = Len(another) /\ \A i \in 1..Len(p) : p[i] = another[i]

\* Path.next; the root path throws, which callers never reach
next(p) == SubSeq(p, 1, Len(p) - 1) \o <<p[Len(p)] + 1>>

\* Path.previous; the root path and a first child throw
previous(p) == SubSeq(p, 1, Len(p) - 1) \o <<p[Len(p)] - 1>>

parent(p) == SubSeq(p, 1, Len(p) - 1)

insertNodeCaseSiblingOnly(p, op, opEqOrAbovePath, opEndsBeforePath) ==
  IF opEndsBeforePath
  THEN Some(Shift(p, Len(op) - 1, 1))
  ELSE Some(p)

insertNodeCase(p, op, opEqOrAbovePath, opEndsBeforePath) ==
  IF opEqOrAbovePath \/ opEndsBeforePath
  THEN Some(Shift(p, Len(op) - 1, 1))
  ELSE Some(p)

removeNodeCaseNeverNull(p, op, opEqOrAbovePath, opEndsBeforePath) ==
  IF opEqOrAbovePath /\ Len(op) < Len(p)
  THEN Null
  ELSE IF opEndsBeforePath
       THEN Some(Shift(p, Len(op) - 1, -1))
       ELSE Some(p)

removeNodeCase(p, op, opEqOrAbovePath, opEndsBeforePath) ==
  IF opEqOrAbovePath
  THEN Null
  ELSE IF opEndsBeforePath
       THEN Some(Shift(p, Len(op) - 1, -1))
       ELSE Some(p)

mergeNodeCase(p, op, position, opEqOrAbovePath, opEqualPath, opEndsBeforePath) ==
  IF opEqualPath \/ opEndsBeforePath
  THEN Some(Shift(p, Len(op) - 1, -1))
  ELSE IF opEqOrAbovePath
       THEN Some(Shift(Shift(p, Len(op) - 1, -1), Len(op), position))
       ELSE Some(p)

splitNodeCaseStrict(p, op, position, affinity, cd, opEqOrAbovePath, opEqualPath, opEndsBeforePath) ==
  IF opEqualPath
  THEN IF affinity = "forward"
       THEN Some(Shift(p, Len(op) - 1, 1))
       ELSE IF affinity = "backward" THEN Some(p) ELSE Null
  ELSE IF opEndsBeforePath
       THEN Some(Shift(p, Len(op) - 1, 1))
       ELSE IF opEqOrAbovePath /\ p[cd + 1] > position
            THEN Some(Shift(Shift(p, Len(op) - 1, 1), Len(op), -position))
            ELSE Some(p)

splitNodeCase(p, op, position, affinity, cd, opEqOrAbovePath, opEqualPath, opEndsBeforePath) ==
  IF opEqualPath
  THEN IF affinity = "forward"
       THEN Some(Shift(p, Len(op) - 1, 1))
       ELSE IF affinity = "backward" THEN Some(p) ELSE Null
  ELSE IF opEndsBeforePath
       THEN Some(Shift(p, Len(op) - 1, 1))
       ELSE IF opEqOrAbovePath /\ p[cd + 1] >= position
            THEN Some(Shift(Shift(p, Len(op) - 1, 1), Len(op), -position))
            ELSE Some(p)

moveNodeCaseCancelsAtOrAbove(p, op, newOp, opEqOrAbovePath, opEndsBeforePath) ==
  LET opDepth == Len(op) - 1 IN
  IF opEqOrAbovePath
  THEN LET commonDepthBetween == commonDepth(op, newOp)
           spliced == newOp \o SubSeq(p, Len(op) + 1, Len(p))
           opEndsBeforeNewOp ==
             commonDepthBetween = opDepth /\ IdxLt(op, newOp, commonDepthBetween)
       IN IF commonDepthBetween = Len(op)
          THEN Some(p)
          ELSE IF opEndsBeforeNewOp /\ Len(op) < Len(newOp)
               THEN Some(Shift(spliced, opDepth, -1))
               ELSE Some(spliced)
  ELSE LET newCommonDepth == commonDepth(p, newOp)
           newOpDepth == Len(newOp) - 1
           newOpEqOrAbovePath == newCommonDepth = Len(newOp)
           newOpEndsBeforePath ==
             newCommonDepth = newOpDepth /\ IdxLt(newOp, p, newCommonDepth)
       IN IF opEndsBeforePath
          THEN IF (newOpEqOrAbovePath \/ newOpEndsBeforePath) /\ opDepth = newOpDepth
               THEN Some(p)
               ELSE IF (newOpEqOrAbovePath \/ newOpEndsBeforePath)
                       /\ opDepth # newOpDepth
                    THEN Some(Shift(Shift(p, opDepth, -1), newOpDepth, 1))
                    ELSE Some(Shift(p, opDepth, -1))
          ELSE IF newOpEqOrAbovePath \/ newOpEndsBeforePath
               THEN Some(Shift(p, newOpDepth, 1))
               ELSE Some(p)

moveNodeCase(p, op, newOp, opEqOrAbovePath, opEndsBeforePath) ==
  LET opDepth == Len(op) - 1 IN
  IF opEqOrAbovePath
  THEN LET commonDepthBetween == commonDepth(op, newOp)
           \* outPath.splice(0, op.length, ...newOp)
           spliced == newOp \o SubSeq(p, Len(op) + 1, Len(p))
           opEndsBeforeNewOp ==
             commonDepthBetween = opDepth /\ IdxLt(op, newOp, commonDepthBetween)
       IN IF commonDepthBetween = Len(op)
          THEN Some(p)
          ELSE IF opEndsBeforeNewOp /\ Len(op) < Len(newOp)
               THEN Some(Shift(spliced, opDepth, -1))
               ELSE Some(spliced)
  ELSE LET newCommonDepth == commonDepth(p, newOp)
           newOpDepth == Len(newOp) - 1
           newOpEqOrAbovePath == newCommonDepth = Len(newOp)
           newOpEndsBeforePath ==
             newCommonDepth = newOpDepth /\ IdxLt(newOp, p, newCommonDepth)
       IN IF opEndsBeforePath
          THEN IF newOpEndsBeforePath /\ opDepth = newOpDepth
               THEN Some(p)
               ELSE IF (newOpEqOrAbovePath \/ newOpEndsBeforePath)
                       /\ opDepth # newOpDepth
                    THEN Some(Shift(Shift(p, opDepth, -1), newOpDepth, 1))
                    ELSE Some(Shift(p, opDepth, -1))
          ELSE IF newOpEqOrAbovePath \/ newOpEndsBeforePath
               THEN Some(Shift(p, newOpDepth, 1))
               ELSE Some(p)

\* Path.transform(path, operation, {affinity})
defaultCaseNull(p) == Null

\* no case of the switch matches the operation's type: outPath is returned, the
\* copy of path it was initialised with
defaultCase(p) == Some(p)

transform(p, operation, affinity) ==
  LET type == operation.type
      op == operation.path
  IN IF Len(op) > Len(p)
        /\ (type # "move_node" \/ Len(operation.newPath) > Len(p))
     THEN Some(p)
     ELSE LET cd == commonDepth(p, op)
              opDepth == Len(op) - 1
              opEqOrAbovePath == cd = Len(op)
              opEqualPath == cd = Len(p)
              opEndsBeforePath == cd = opDepth /\ IdxLt(op, p, cd)
          IN IF ~opEqOrAbovePath /\ ~opEndsBeforePath /\ type # "move_node"
             THEN Some(p)
             ELSE CASE type = "insert_node" ->
                         insertNodeCase(p, op, opEqOrAbovePath, opEndsBeforePath)
                    [] type = "remove_node" ->
                         removeNodeCase(p, op, opEqOrAbovePath, opEndsBeforePath)
                    [] type = "merge_node" ->
                         mergeNodeCase(p, op, operation.position,
                                       opEqOrAbovePath, opEqualPath, opEndsBeforePath)
                    [] type = "split_node" ->
                         splitNodeCase(p, op, operation.position, affinity, cd,
                                       opEqOrAbovePath, opEqualPath, opEndsBeforePath)
                    [] type = "move_node" ->
                         moveNodeCase(p, op, operation.newPath,
                                      opEqOrAbovePath, opEndsBeforePath)
                    [] OTHER -> defaultCase(p)

----------------------------------------------------------------------------
(* The second Path implementation of the repository: src/unnamed/part_000 *)

\* the number that `undefined + n` evaluates to
NaN == 0 - 1000

\* outPath[i] += d as the array does it: an index one past the end is appended as NaN
ShiftArr(p, i, d) ==
  IF i < Len(p) THEN [p EXCEPT ![i + 1] = IF @ = NaN THEN NaN ELSE @ + d]
  ELSE IF i = Len(p) THEN Append(p, NaN)
  ELSE p

mergeNodeCase000(p, op, position, opEqOrAbovePath, opEndsBeforePath) ==
  IF opEqOrAbovePath \/ opEndsBeforePath
  THEN Some(ShiftArr(ShiftArr(p, Len(op) - 1, -1), Len(op), position))
  ELSE IF opEqOrAbovePath
       THEN Some(ShiftArr(p, Len(op) - 1, -1))
       ELSE Some(p)

splitNodeCase000(p, op, position, affinity, cd, opEqOrAbovePath, opEqualPath, opEndsBeforePath) ==
  IF opEqualPath
  THEN IF affinity = "forward"
       THEN Some(ShiftArr(p, Len(op) - 1, 1))
       ELSE IF affinity = "backward" THEN Some(p) ELSE Null
  ELSE IF opEqOrAbovePath
       THEN IF p[cd + 1] >= position
            THEN Some(ShiftArr(ShiftArr(p, Len(op) - 1, 1), Len(op), -position))
            ELSE Some(p)
       ELSE IF opEndsBeforePath
            THEN Some(ShiftArr(p, Len(op) - 1, 1))
            ELSE Some(p)

moveNodeCase000(p, op, newOp, cd, opEqOrAbovePath, opEndsBeforePath) ==
  LET opDepth == Len(op) - 1 IN
  IF opEqOrAbovePath
  THEN LET cdBetween == commonDepth(op, newOp)
           \* outPath.splice(0, cd, ...newOp)
           spliced == newOp \o SubSeq(p, cd + 1, Len(p))
           opEndsBeforeNewOp == cdBetween = opDepth /\ IdxLt(op, newOp, cdBetween)
       IN IF cdBetween = Len(newOp)
          THEN Some(p)
          ELSE IF opEndsBeforeNewOp /\ Len(op) < Len(newOp)
               THEN Some(ShiftArr(spliced, opDepth, -1))
               ELSE Some(spliced)
  ELSE LET newCd == commonDepth(p, newOp)
           newOpDepth == Len(newOp) - 1
           newOpEqOrAbovePath == newCd = Len(newOp)
           newOpEndsBeforePath == newCd = newOpDepth /\ IdxLt(newOp, p, newCd)
       IN IF newOpEqOrAbovePath \/ newOpEndsBeforePath
          THEN IF opEndsBeforePath
               THEN IF opDepth = newOpDepth
                    THEN Some(p)
                    ELSE Some(ShiftArr(ShiftArr(p, opDepth, -1), newOpDepth, 1))
               ELSE Some(ShiftArr(p, newOpDepth, 1))
          ELSE IF opEndsBeforePath
               THEN Some(ShiftArr(p, opDepth, -1))
               ELSE Some(p)

\* Path.transform of part_000, for a path that is not null
transform000(p, operation, affinity) ==
  LET type == operation.type
      op == operation.path
  IN IF Len(op) > Len(p)
        /\ (type # "move_node" \/ Len(operation.newPath) > Len(p))
     THEN Some(p)
     ELSE LET cd == commonDepth(p, op)
              opDepth == Len(op) - 1
              opEqOrAbovePath == cd = Len(op)
              opEqualPath == cd = Len(p)
              opEndsBeforePath == cd = opDepth /\ IdxLt(op, p, cd)
          IN CASE type = "insert_node" ->
                    IF opEqOrAbovePath \/ opEndsBeforePath
                    THEN Some(ShiftArr(p, opDepth, 1))
                    ELSE Some(p)
               [] type = "remove_node" ->
                    IF opEqOrAbovePath THEN Null
                    ELSE IF opEndsBeforePath
                         THEN Some(ShiftArr(p, opDepth, -1))
                         ELSE Some(p)
               [] type = "merge_node" ->
                    mergeNodeCase000(p, op, operation.position,
                                     opEqOrAbovePath, opEndsBeforePath)
               [] type = "split_node" ->
                    splitNodeCase000(p, op, operation.position, affinity, cd,
                                     opEqOrAbovePath, opEqualPath, opEndsBeforePath)
               [] type = "move_node" ->
                    moveNodeCase000(p, op, operation.newPath, cd,
                                    opEqOrAbovePath, opEndsBeforePath)
               [] OTHER -> defaultCase(p)

\* Operation.transformsPaths / Path.operationCanTransformPath
operationCanTransformPath(operation) ==
  operation.type \in {"insert_node", "remove_node", "merge_node",
                      "split_node", "move_node"}

----------------------------------------------------------------------------
(* String diffs: packages/slate-dom/src/utils/diff-text.ts *)

\* an index argument of String.prototype.slice: negative counts from the end, then clamped
SliceIndex(len, i) == IF i < 0 THEN Max(len + i, 0) ELSE Min(i, len)

\* str.slice(from, to)
slice(str, from, to) ==
  SubSeq(str, SliceIndex(Len(str), from) + 1, SliceIndex(Len(str), to))

\* str.slice(from)
sliceFrom(str, from) == slice(str, from, Len(str))

\* one step of applyStringDiff's reduce
applyOne(text, diff) ==
  slice(text, 0, diff.start) \o diff.text \o sliceFrom(text, diff.end)

RECURSIVE applyStringDiff(_, _)
applyStringDiff(text, diffs) ==
  IF diffs = <<>> THEN text
  ELSE applyStringDiff(applyOne(text, Head(diffs)), Tail(diffs))

RECURSIVE prefixFrom(_, _, _, _)
prefixFrom(str, another, length, i) ==
  IF i < length
  THEN IF str[i + 1] # another[i + 1] THEN i
       ELSE prefixFrom(str, another, length, i + 1)
  ELSE length

RECURSIVE prefixFromOffByOne(_, _, _, _)
prefixFromOffByOne(str, another, length, i) ==
  IF i < length
  THEN IF str[i + 1] # another[i + 1] THEN i + 1
       ELSE prefixFromOffByOne(str, another, length, i + 1)
  ELSE length

longestCommonPrefixLengthOffByOne(str, another) ==
  prefixFromOffByOne(str, another, Min(Len(str), Len(another)), 0)

longestCommonPrefixLength(str, another) ==
  prefixFrom(str, another, Min(Len(str), Len(another)), 0)

RECURSIVE suffixFrom(_, _, _, _)
suffixFrom(str, another, length, i) ==
  IF i < length
  THEN IF str[Len(str) - i] # another[Len(another) - i] THEN i
       ELSE suffixFrom(str, another, length, i + 1)
  ELSE length

longestCommonSuffixLength(str, another, max) ==
  suffixFrom(str, another, Min(Min(Len(str), Len(another)), max), 0)

normalizeStringDiffNoMax(targetText, diff) ==
  LET removedText == slice(targetText, diff.start, diff.end)
      prefixLength == longestCommonPrefixLength(removedText, diff.text)
      suffixLength ==
        longestCommonSuffixLength(removedText, diff.text, Len(removedText))
      normalized ==
        [start |-> diff.start + prefixLength,
         end |-> diff.end - suffixLength,
         text |-> slice(diff.text, prefixLength, Len(diff.text) - suffixLength)]
  IN IF normalized.start = normalized.end /\ Len(normalized.text) = 0
     THEN Null
     ELSE Some(normalized)

normalizeStringDiffOneChar(targetText, diff) ==
  LET removedText == slice(targetText, diff.start, diff.end)
      prefixLength == Min(1, longestCommonPrefixLength(removedText, diff.text))
      max == Min(Len(removedText) - prefixLength, Len(diff.text) - prefixLength)
      suffixLength == longestCommonSuffixLength(removedText, diff.text, max)
      normalized ==
        [start |-> diff.start + prefixLength,
         end |-> diff.end - suffixLength,
         text |-> slice(diff.text, prefixLength, Len(diff.text) - suffixLength)]
  IN IF normalized.start = normalized.end /\ Len(normalized.text) = 0
     THEN Null
     ELSE Some(normalized)

normalizeStringDiff(targetText, diff) ==
  LET removedText == slice(targetText, diff.start, diff.end)
      prefixLength == longestCommonPrefixLength(removedText, diff.text)
      max == Min(Len(removedText) - prefixLength, Len(diff.text) - prefixLength)
      suffixLength == longestCommonSuffixLength(removedText, diff.text, max)
      normalized ==
        [start |-> diff.start + prefixLength,
         end |-> diff.end - suffixLength,
         text |-> slice(diff.text, prefixLength, Len(diff.text) - suffixLength)]
  IN IF normalized.start = normalized.end /\ Len(normalized.text) = 0
     THEN Null
     ELSE Some(normalized)

mergeStringDiffsEndOfB(targetText, a, b) ==
  LET start == Min(a.start, b.start)
      overlap == Max(0, Min(a.start + Len(a.text), b.end) - b.start)
      applied == applyStringDiff(targetText, <<a, b>>)
      sliceEnd ==
        Max(b.start + Len(b.text),
            a.start + Len(a.text)
              + (IF a.start + Len(a.text) > b.start THEN Len(b.text) ELSE 0)
              - overlap)
      text == slice(applied, start, sliceEnd)
      end == Max(a.end, b.end)
  IN normalizeStringDiff(targetText, [start |-> start, end |-> end, text |-> text])

mergeStringDiffs(targetText, a, b) ==
  LET start == Min(a.start, b.start)
      overlap == Max(0, Min(a.start + Len(a.text), b.end) - b.start)
      applied == applyStringDiff(targetText, <<a, b>>)
      sliceEnd ==
        Max(b.start + Len(b.text),
            a.start + Len(a.text)
              + (IF a.start + Len(a.text) > b.start THEN Len(b.text) ELSE 0)
              - overlap)
      text == slice(applied, start, sliceEnd)
      end == Max(a.end, b.end - Len(a.text) + (a.end - a.start))
  IN normalizeStringDiff(targetText, [start |-> start, end |-> end, text |-> text])

----------------------------------------------------------------------------
(* Point algebra: src/unnamed/part_001 *)

pointEquals(point, another) ==
  point.offset = another.offset /\ equals(point.path, another.path)

pointInsertTextCaseIgnoresAffinity(point, op, affinity) ==
  IF op.offset <= point.offset
  THEN Some([path |-> point.path, offset |-> point.offset + Len(op.text)])
  ELSE Some(point)

pointInsertTextCase(point, op, affinity) ==
  IF op.offset < point.offset \/ (op.offset = point.offset /\ affinity = "forward")
  THEN Some([path |-> point.path, offset |-> point.offset + Len(op.text)])
  ELSE Some(point)

pointMergeNodeCase(point, op) ==
  Some([path |-> previous(point.path), offset |-> point.offset + op.position])

pointRemoveTextCaseNoClamp(point, op) ==
  IF op.offset < point.offset
  THEN Some([path |-> point.path, offset |-> point.offset - Len(op.text)])
  ELSE Some(point)

pointRemoveTextCase(point, op) ==
  IF op.offset < point.offset
  THEN Some([path |-> point.path,
             offset |-> Max(op.offset, point.offset - Len(op.text))])
  ELSE Some(point)

pointSplitNodeCaseIgnoresAffinity(point, op, affinity) ==
  IF op.position = point.offset /\ affinity = "none"
  THEN Null
  ELSE IF op.position <= point.offset
       THEN Some([path |-> next(point.path), offset |-> point.offset - op.position])
       ELSE Some(point)

pointSplitNodeCase(point, op, affinity) ==
  IF op.position = point.offset /\ affinity = "none"
  THEN Null
  ELSE IF op.position < point.offset
          \/ (op.position = point.offset /\ affinity = "forward")
       THEN Some([path |-> next(point.path), offset |-> point.offset - op.position])
       ELSE Some(point)

\* Point.transform(point, op, {affinity}); affinity "none" is the source's null
pointTransform(point, op, affinity) ==
  IF equals(op.path, point.path)
     /\ op.type \in {"insert_text", "merge_node", "remove_text", "split_node"}
  THEN CASE op.type = "insert_text" -> pointInsertTextCase(point, op, affinity)
         [] op.type = "merge_node" -> pointMergeNodeCase(point, op)
         [] op.type = "remove_text" -> pointRemoveTextCase(point, op)
         [] op.type = "split_node" -> pointSplitNodeCase(point, op, affinity)
  ELSE LET outPath == IF operationCanTransformPath(op)
                      THEN transform(point.path, op, affinity)
                      ELSE Some(point.path)
       IN IF outPath = Null THEN Null
          ELSE Some([path |-> Get(outPath), offset |-> point.offset])

----------------------------------------------------------------------------
(* Pending diffs: packages/slate-dom/src/utils/diff-text.ts *)

\* pendingDiffs?.find(({ path }) => Path.equals(path, point.path)): the first
\* such text diff, Null when there is none
findPendingDiff(pendingDiffs, point) ==
  LET hits == {i \in 1..Len(pendingDiffs) :
                 equals(pendingDiffs[i].path, point.path)}
  IN IF hits = {} THEN Null
     ELSE Some(pendingDiffs[CHOOSE i \in hits : \A j \in hits : i <= j])

transformPendingPoint(pendingDiffs, point, op) ==
  LET textDiff == findPendingDiff(pendingDiffs, point) IN
  IF textDiff = Null \/ point.offset <= Get(textDiff).diff.start
  THEN pointTransform(point, op, "backward")
  ELSE
    LET diff == Get(textDiff).diff IN
    IF point.offset <= diff.start + Len(diff.text)
    THEN LET anchor == [path |-> point.path, offset |-> diff.start]
             transformed == pointTransform(anchor, op, "backward")
         IN IF transformed = Null THEN Null
            ELSE Some([path |-> Get(transformed).path,
                       offset |-> Get(transformed).offset + point.offset - diff.start])
    ELSE LET anchor == [path |-> point.path,
                        offset |-> point.offset - Len(diff.text) + diff.end - diff.start]
             transformed == pointTransform(anchor, op, "backward")
         IN IF transformed = Null THEN Null
            ELSE IF /\ op.type = "split_node"
                    /\ equals(op.path, point.path)
                    /\ anchor.offset < op.position
                    /\ diff.start < op.position
                 THEN transformed
                 ELSE Some([path |-> Get(transformed).path,
                            offset |-> Get(transformed).offset
                                         + Len(diff.text) - diff.end + diff.start])

\* Range.isCollapsed(range)
isCollapsed(range) == pointEquals(range.anchor, range.focus)

transformPendingRangeStaleFocus(pendingDiffs, range, op) ==
  LET anchor == transformPendingPoint(pendingDiffs, range.anchor, op) IN
  IF anchor = Null THEN Null
  ELSE IF isCollapsed(range)
       THEN Some([anchor |-> Get(anchor), focus |-> range.focus])
       ELSE LET focus == transformPendingPoint(pendingDiffs, range.focus, op)
            IN IF focus = Null THEN Null
               ELSE Some([anchor |-> Get(anchor), focus |-> Get(focus)])

transformPendingRange(pendingDiffs, range, op) ==
  LET anchor == transformPendingPoint(pendingDiffs, range.anchor, op) IN
  IF anchor = Null THEN Null
  ELSE IF isCollapsed(range)
       THEN Some([anchor |-> Get(anchor), focus |-> Get(anchor)])
       ELSE LET focus == transformPendingPoint(pendingDiffs, range.focus, op)
            IN IF focus = Null THEN Null
               ELSE Some([anchor |-> Get(anchor), focus |-> Get(focus)])

----------------------------------------------------------------------------
(* Children arrays: packages/slate/src/utils/modify.ts *)

\* children.slice(); out.splice(index, removeCount, ...newValues)
replaceChildren(children, index, removeCount, newValues) ==
  SubSeq(children, 1, Min(index, Len(children)))
    \o newValues
    \o SubSeq(children, Min(index, Len(children)) + removeCount + 1, Len(children))

insertChildren(children, index, newValues) ==
  replaceChildren(children, index, 0, newValues)

removeChildren(children, index, removeCount) ==
  replaceChildren(children, index, removeCount, <<>>)

replaceChild(children, index, newValue) ==
  [children EXCEPT ![index + 1] = newValue]

\* Node.get(root, path)
RECURSIVE NodeGet(_, _)
NodeGet(root, p) ==
  IF p = <<>> THEN root ELSE NodeGet(root.kids[p[1] + 1], Tail(p))

\* Editor.hasPath(root, path)
RECURSIVE HasPath(_, _)
HasPath(root, p) ==
  IF p = <<>> THEN TRUE
  ELSE /\ p[1] < Len(root.kids)
       /\ HasPath(root.kids[p[1] + 1], Tail(p))

\* modifyDescendant(root, path, f), f given by its result modifiedNode on the
\* node at path: that node replaced, and every ancestor up to the root with it
RECURSIVE modifyDescendant(_, _, _)
modifyDescendant(root, p, modifiedNode) ==
  IF p = <<>> THEN modifiedNode
  ELSE [root EXCEPT !.kids =
          replaceChild(root.kids, p[1],
                       modifyDescendant(root.kids[p[1] + 1], Tail(p), modifiedNode))]

\* modifyChildren(root, path, f), f given by its result newChildren on the
\* children of the node at path
modifyChildren(root, p, newChildren) ==
  IF p = <<>>
  THEN [root EXCEPT !.kids = newChildren]
  ELSE modifyDescendant(root, p, [NodeGet(root, p) EXCEPT !.kids = newChildren])

----------------------------------------------------------------------------
(* Applying an operation to the document.  A node is [mark, leaf, kids]: leaf
   tells a text leaf from an element, and mark is carried by the one node the
   rebased path is meant to address.  A merge keeps the mark on the merge
   target; a split hands the mark of the split node to the new right-hand
   node. *)

LastIndex(p) == p[Len(p)]

applyInsertNode(root, p, node) ==
  LET children == NodeGet(root, parent(p)).kids
  IN modifyChildren(root, parent(p), insertChildren(children, LastIndex(p), <<node>>))

applyRemoveNode(root, p) ==
  LET children == NodeGet(root, parent(p)).kids
  IN modifyChildren(root, parent(p), removeChildren(children, LastIndex(p), 1))

applyMergeNode(root, p) ==
  LET node == NodeGet(root, p)
      prev == NodeGet(root, previous(p))
      newNode == [mark |-> prev.mark \/ node.mark, leaf |-> prev.leaf,
                  kids |-> prev.kids \o node.kids]
      children == NodeGet(root, parent(p)).kids
  IN modifyChildren(root, parent(p),
                    replaceChildren(children, LastIndex(p) - 1, 2, <<newNode>>))

applySplitNode(root, p, position) ==
  LET node == NodeGet(root, p)
      \* a text leaf splits its text at position; an element its children
      before == [mark |-> FALSE, leaf |-> node.leaf,
                 kids |-> IF node.leaf THEN <<>> ELSE SubSeq(node.kids, 1, position)]
      after == [mark |-> node.mark, leaf |-> node.leaf,
                kids |-> IF node.leaf THEN <<>>
                         ELSE SubSeq(node.kids, position + 1, Len(node.kids))]
      children == NodeGet(root, parent(p)).kids
  IN modifyChildren(root, parent(p),
                    replaceChildren(children, LastIndex(p), 1, <<before, after>>))

\* where the moved node lands: the engine rebases the operation's own path
truePath(operation) == Get(transform(operation.path, operation, "forward"))

applyMoveNode(root, operation) ==
  LET node == NodeGet(root, operation.path)
      removed == applyRemoveNode(root, operation.path)
  IN applyInsertNode(removed, truePath(operation), node)

----------------------------------------------------------------------------
(* Inputs of the Path.transform checks *)

RECURSIVE PathsUpTo(_, _)
PathsUpTo(n, maxIndex) ==
  IF n = 0 THEN {<<>>}
  ELSE LET shorter == PathsUpTo(n - 1, maxIndex)
       IN shorter \cup {q \o <<i>> : q \in shorter, i \in 0..maxIndex}

Paths == PathsUpTo(MaxLen, MaxIndex)
\* an operation never addresses the root
OpPaths == Paths \ {<<>>}
Affinities == {"forward", "backward", "none"}

InsertNodeOps == [type : {"insert_node"}, path : OpPaths]
RemoveNodeOps == [type : {"remove_node"}, path : OpPaths]
SplitNodeOps == [type : {"split_node"}, path : OpPaths, position : 0..MaxPosition]
\* the merged-away node has a previous sibling
MergeNodeOps ==
  [type : {"merge_node"}, path : {q \in OpPaths : q[Len(q)] > 0},
   position : 0..MaxPosition]

PathInputs ==
  [path : Paths, op : InsertNodeOps \cup RemoveNodeOps \cup MergeNodeOps,
   affinity : {"forward"}]
  \cup [path : Paths, op : SplitNodeOps, affinity : Affinities]

Idle == "idle"
EmptyTree == [mark |-> FALSE, leaf |-> FALSE, kids |-> <<>>]

PathInit ==
  /\ inp \in PathInputs
  /\ out = Null
  /\ aux = Null
  /\ pc = "ready"
  /\ tree = EmptyTree
  /\ path = Null
  /\ last = Idle

PathTransform(type) ==
  /\ pc = "ready"
  /\ inp.op.type = type
  /\ out' = transform(inp.path, inp.op, inp.affinity)
  /\ aux' = transform000(inp.path, inp.op, inp.affinity)
  /\ pc' = "done"
  /\ UNCHANGED <<tree, path, last, inp>>

TransformInsertNode == PathTransform("insert_node")
TransformRemoveNode == PathTransform("remove_node")
TransformMergeNode == PathTransform("merge_node")
TransformSplitNode == PathTransform("split_node")

PathNext ==
  \/ TransformInsertNode
  \/ TransformRemoveNode
  \/ TransformMergeNode
  \/ TransformSplitNode

SpecPath == PathInit /\ [][PathNext]_vars

----------------------------------------------------------------------------
(* Relations between paths, stated without commonDepth *)

\* a equals b or is an ancestor of b
AtOrAbove(a, b) == Len(a) <= Len(b) /\ SubSeq(b, 1, Len(a)) = a

\* a is an earlier sibling of b or of one of b's ancestors
EarlierSibling(a, b) ==
  /\ Len(a) >= 1
  /\ Len(a) <= Len(b)
  /\ SubSeq(a, 1, Len(a) - 1) = SubSeq(b, 1, Len(a) - 1)
  /\ a[Len(a)] < b[Len(a)]

\* p with the index at 0-based depth d changed by delta
WithIndex(p, d, delta) ==
  [i \in 1..Len(p) |-> IF i = d + 1 THEN p[i] + delta ELSE p[i]]

PathDone(type) == pc = "done" /\ inp.op.type = type

(* C6: for remove_node at op, Path.transform is null iff op equals p or is an
   ancestor of p; an earlier sibling of p (or of an ancestor of p) decrements
   the index at depth op.length-1; every other path is returned unchanged. *)
C6_RemoveNode ==
  PathDone("remove_node") =>
    LET p == inp.path
        op == inp.op.path
    IN /\ (out = Null) <=> AtOrAbove(op, p)
       /\ EarlierSibling(op, p) => out = Some(WithIndex(p, Len(op) - 1, -1))
       /\ ~AtOrAbove(op, p) /\ ~EarlierSibling(op, p) => out = Some(p)
       /\ (p = <<0, 1>> /\ op = <<0, 1>>) => out = Null

C6_Witness ==
  /\ PathDone("remove_node")
  /\ inp.path = <<0, 1>>
  /\ inp.op.path = <<0, 1>>
  /\ out = Null

(* C7: for insert_node at op, Path.transform increments the index at depth
   op.length-1 when op equals p, is an ancestor of p, or is an earlier sibling
   of p or of one of p's ancestors; otherwise it returns p; it is never null. *)
C7_InsertNode ==
  PathDone("insert_node") =>
    LET p == inp.path
        op == inp.op.path
    IN /\ out # Null
       /\ (AtOrAbove(op, p) \/ EarlierSibling(op, p))
            => out = Some(WithIndex(p, Len(op) - 1, 1))
       /\ ~(AtOrAbove(op, p) \/ EarlierSibling(op, p)) => out = Some(p)
       /\ (p = <<0, 1>> /\ op = <<0, 0>>) => out = Some(<<0, 2>>)

C7_Witness ==
  /\ PathDone("insert_node")
  /\ inp.path = <<0, 1>>
  /\ inp.op.path = <<0, 0>>
  /\ out = Some(<<0, 2>>)

\* what C8 says Path.transform returns for split_node at op, position k
SplitExpected(p, op, k, affinity) ==
  IF p = op
  THEN IF affinity = "forward" THEN Some(WithIndex(p, Len(op) - 1, 1))
       ELSE IF affinity = "backward" THEN Some(p)
       ELSE Null
  ELSE IF AtOrAbove(op, p)
       THEN IF p[Len(op) + 1] >= k
            THEN Some(WithIndex(WithIndex(p, Len(op) - 1, 1), Len(op), -k))
            ELSE Some(p)
       ELSE IF EarlierSibling(op, p)
            THEN Some(WithIndex(p, Len(op) - 1, 1))
            ELSE Some(p)

(* C8: for split_node at op with position k: p = op gives the next sibling
   (forward), p itself (backward) or null (no affinity); p strictly inside op
   with p[op.length] >= k moves to the new right-hand node with that index
   reduced by k, and is unchanged when p[op.length] < k; an earlier sibling
   increments the index at depth op.length-1; otherwise p is unchanged.  Both
   implementations of Path.transform agree with this. *)
C8_SplitNode ==
  PathDone("split_node") =>
    LET expected ==
          SplitExpected(inp.path, inp.op.path, inp.op.position, inp.affinity)
    IN /\ out = expected
       /\ aux = expected

C8_Witness ==
  /\ PathDone("split_node")
  /\ Len(inp.op.path) < Len(inp.path)
  /\ AtOrAbove(inp.op.path, inp.path)
  /\ inp.op.position > 0
  /\ inp.path[Len(inp.op.path) + 1] >= inp.op.position
  /\ out = Some(WithIndex(WithIndex(inp.path, Len(inp.op.path) - 1, 1),
                          Len(inp.op.path), -inp.op.position))
  /\ aux = out

----------------------------------------------------------------------------
(* Inputs of the string diff checks *)

Alphabet == {"a", "b"}

RECURSIVE StringsUpTo(_)
StringsUpTo(n) ==
  IF n = 0 THEN {<<>>}
  ELSE LET shorter == StringsUpTo(n - 1)
       IN shorter \cup {str \o <<c>> : str \in shorter, c \in Alphabet}

\* the diffs that address a range of str
DiffsOn(str) ==
  {d \in [start : 0..Len(str), end : 0..Len(str), text : StringsUpTo(MaxInsert)] :
     d.start <= d.end}

HelloWorld == <<"h", "e", "l", "l", "o", " ", "w", "o", "r", "l", "d">>
HelloEarth == <<"h", "e", "l", "l", "o", " ", "e", "a", "r", "t", "h">>
Earth == <<"e", "a", "r", "t", "h">>
\* the scenario normalizeStringDiff("hello world", {start: 0, end: 11, text: "hello earth"})
Scenario4 ==
  [kind |-> "normalize", text |-> HelloWorld,
   diff |-> [start |-> 0, end |-> Len(HelloWorld), text |-> HelloEarth]]

NormalizeInput(t, d) == [kind |-> "normalize", text |-> t, diff |-> d]
MergeInput(t, a, b) == [kind |-> "merge", text |-> t, a |-> a, b |-> b]

DiffInit ==
  /\ \/ \E t \in StringsUpTo(MaxText + 1) : \E d \in DiffsOn(t) :
          inp = NormalizeInput(t, d)
     \/ inp = Scenario4
     \/ \E t \in StringsUpTo(MaxText) : \E a \in DiffsOn(t) :
          \E b \in DiffsOn(applyOne(t, a)) : inp = MergeInput(t, a, b)
  /\ out = Null
  /\ aux = Null
  /\ pc = "ready"
  /\ tree = EmptyTree
  /\ path = Null
  /\ last = Idle

Normalize ==
  /\ pc = "ready"
  /\ inp.kind = "normalize"
  /\ out' = normalizeStringDiff(inp.text, inp.diff)
  /\ pc' = "done"
  /\ UNCHANGED <<tree, path, last, inp, aux>>

\* the host normalizes a diff that is already normalized
NormalizeAgain ==
  /\ pc = "done"
  /\ inp.kind = "normalize"
  /\ out # Null
  /\ aux' = out
  /\ out' = normalizeStringDiff(inp.text, Get(out))
  /\ pc' = "again"
  /\ UNCHANGED <<tree, path, last, inp>>

Merge ==
  /\ pc = "ready"
  /\ inp.kind = "merge"
  /\ out' = mergeStringDiffs(inp.text, inp.a, inp.b)
  /\ pc' = "done"
  /\ UNCHANGED <<tree, path, last, inp, aux>>

DiffNext ==
  \/ Normalize
  \/ NormalizeAgain
  \/ Merge

SpecDiff == DiffInit /\ [][DiffNext]_vars

(* C2: when mergeStringDiffs(t, a, b) returns a diff m, applying m to t gives
   the text that applying a and then b gives; it returns null exactly when
   applying a and then b leaves t unchanged. *)
C2_Merge ==
  (pc = "done" /\ inp.kind = "merge") =>
    LET both == applyStringDiff(inp.text, <<inp.a, inp.b>>)
    IN /\ out # Null => applyStringDiff(inp.text, <<Get(out)>>) = both
       /\ (out = Null) <=> (both = inp.text)

\* b replaces text on both sides of the end of a's inserted text
C2_Witness ==
  /\ pc = "done"
  /\ inp.kind = "merge"
  /\ inp.b.start < inp.a.start + Len(inp.a.text)
  /\ inp.a.start + Len(inp.a.text) < inp.b.end
  /\ inp.a.start < inp.a.end
  /\ out # Null
  /\ applyStringDiff(inp.text, <<Get(out)>>)
       = applyStringDiff(inp.text, <<inp.a, inp.b>>)

(* C3: a diff n returned by normalizeStringDiff(t, d) has the effect of d on t
   and lies inside d (n.start >= d.start, n.end <= d.end); the result is null
   exactly when t[d.start:d.end] equals d.text. *)
C3_Normalize ==
  (pc = "done" /\ inp.kind = "normalize") =>
    LET t == inp.text
        d == inp.diff
    IN /\ out # Null =>
            /\ applyStringDiff(t, <<Get(out)>>) = applyStringDiff(t, <<d>>)
            /\ Get(out).start >= d.start
            /\ Get(out).end <= d.end
            /\ Get(out).start <= Get(out).end
       /\ (out = Null) <=> (SubSeq(t, d.start + 1, d.end) = d.text)

C3_Witness ==
  /\ pc = "done"
  /\ inp.kind = "normalize"
  /\ out # Null
  /\ Get(out).start > inp.diff.start
  /\ Get(out).end < inp.diff.end
  /\ Get(out).start < Get(out).end

(* C4: normalizing an already normalized diff returns that diff again: same
   start, end and text, never null. *)
C4_Idempotent ==
  pc = "again" => out = aux /\ out # Null

C4_Witness ==
  /\ pc = "again"
  /\ aux # Some(inp.diff)
  /\ out = aux

(* C5 as stated: normalizeStringDiff("hello world", {start: 0, end: 11,
   text: "hello earth"}) returns {start: 6, end: 10, text: "earth"}. *)
C5_AsStated ==
  (pc = "done" /\ inp = Scenario4) =>
    out = Some([start |-> 6, end |-> 10, text |-> Earth])

(* C5 amended: the same call returns {start: 6, end: 11, text: "earth"}: the
   common prefix "hello " is stripped and there is no common suffix. *)
C5_Scenario4 ==
  (pc = "done" /\ inp = Scenario4) =>
    out = Some([start |-> 6, end |-> 11, text |-> Earth])

C5_Witness ==
  /\ pc = "done"
  /\ inp = Scenario4
  /\ out # Null
  /\ Get(out).text = Earth

----------------------------------------------------------------------------
(* Inputs of the Point.transform checks *)

PointPaths == PathsUpTo(MaxPointLen, MaxPointIndex) \ {<<>>}
Points == [path : PointPaths, offset : 0..MaxOffset]

\* the text of a text operation; only its length is read
RECURSIVE Filler(_)
Filler(n) == IF n = 0 THEN <<>> ELSE Append(Filler(n - 1), "x")
OpTexts == {Filler(n) : n \in 0..MaxOpText}

PointSplitNodeOps == [type : {"split_node"}, path : PointPaths, position : 0..MaxOffset]
PointMergeNodeOps ==
  [type : {"merge_node"}, path : {q \in PointPaths : q[Len(q)] > 0},
   position : 0..MaxOffset]
PointNodeOps == [type : {"insert_node", "remove_node"}, path : PointPaths]
InsertTextOps ==
  [type : {"insert_text"}, path : PointPaths, offset : 0..MaxOffset, text : OpTexts]
RemoveTextOps ==
  [type : {"remove_text"}, path : PointPaths, offset : 0..MaxOffset, text : OpTexts]

\* the scenario: point {path: [0], offset: 5}, split_node at {path: [0], position: 3}
Scenario3 ==
  [point |-> [path |-> <<0>>, offset |-> 5],
   op |-> [type |-> "split_node", path |-> <<0>>, position |-> 3],
   affinity |-> "forward"]

PointInit ==
  /\ \/ inp \in [point : Points, op : PointSplitNodeOps \cup InsertTextOps,
                 affinity : Affinities]
     \/ inp \in [point : Points,
                 op : PointMergeNodeOps \cup PointNodeOps \cup RemoveTextOps,
                 affinity : {"forward"}]
     \/ inp = Scenario3
  /\ out = Null
  /\ aux = Null
  /\ pc = "ready"
  /\ tree = EmptyTree
  /\ path = Null
  /\ last = Idle

PointTransform(types) ==
  /\ pc = "ready"
  /\ inp.op.type \in types
  /\ out' = pointTransform(inp.point, inp.op, inp.affinity)
  /\ pc' = "done"
  /\ UNCHANGED <<tree, path, last, inp, aux>>

PointInsertText == PointTransform({"insert_text"})
PointRemoveText == PointTransform({"remove_text"})
PointMergeNode == PointTransform({"merge_node"})
PointSplitNode == PointTransform({"split_node"})
PointOtherNode == PointTransform({"insert_node", "remove_node"})

PointNext ==
  \/ PointInsertText
  \/ PointRemoveText
  \/ PointMergeNode
  \/ PointSplitNode
  \/ PointOtherNode

SpecPoint == PointInit /\ [][PointNext]_vars

\* the next sibling of a path, stated without Path.next
NextSibling(p) == [i \in 1..Len(p) |-> IF i = Len(p) THEN p[i] + 1 ELSE p[i]]

(* C9: for split_node on exactly the point's path with position k:
   Point.transform is null when k = offset and there is no affinity; it is
   {next sibling of path, offset - k} when k < offset, or k = offset with
   forward affinity; otherwise the point is unchanged. *)
C9_PointSplit ==
  (pc = "done" /\ inp.op.type = "split_node" /\ inp.op.path = inp.point.path) =>
    LET pt == inp.point
        k == inp.op.position
    IN /\ (k = pt.offset /\ inp.affinity = "none") => out = Null
       /\ (k < pt.offset \/ (k = pt.offset /\ inp.affinity = "forward")) =>
            out = Some([path |-> NextSibling(pt.path), offset |-> pt.offset - k])
       /\ (k > pt.offset \/ (k = pt.offset /\ inp.affinity = "backward")) =>
            out = Some(pt)
       /\ inp = Scenario3 => out = Some([path |-> <<1>>, offset |-> 2])

C9_Witness ==
  /\ pc = "done"
  /\ inp = Scenario3
  /\ out = Some([path |-> <<1>>, offset |-> 2])

----------------------------------------------------------------------------
(* Inputs of the transformPendingRange checks.  The rebasing of a path through
   every relation of paths is checked under SpecPath; here the leaves and the
   operation paths cover: the same leaf, an earlier and a later sibling, an
   ancestor of a leaf, and a leaf below a sibling. *)

RangeLeafPaths == {<<0>>, <<1>>, <<2, 0>>}
RangeOpPaths == {<<0>>, <<1>>, <<2>>, <<2, 0>>}
RangePoints == [path : RangeLeafPaths, offset : 0..MaxRangeOffset]
RangeTexts == {Filler(n) : n \in 0..MaxDiffText}

RangeOps ==
  [type : {"split_node"}, path : RangeOpPaths, position : 0..MaxRangeOffset]
  \cup [type : {"merge_node"}, path : {q \in RangeOpPaths : q[Len(q)] > 0},
        position : 0..MaxRangeOffset]
  \cup [type : {"insert_node", "remove_node"}, path : RangeOpPaths]
  \cup [type : {"insert_text", "remove_text"}, path : RangeLeafPaths,
        offset : 0..MaxRangeOffset, text : RangeTexts \ {<<>>}]
  \cup [type : {"move_node"}, path : RangeOpPaths, newPath : RangeOpPaths]

RangeDiffs ==
  {d \in [start : 0..MaxRangeOffset, end : 0..MaxRangeOffset, text : RangeTexts] :
     d.start <= d.end}

\* the pending diffs of the editor: none, one on the anchor's leaf, or that one
\* followed by a second one on the focus' leaf
PendingFor(anchor, focus) ==
  {<<>>}
  \cup {<<[id |-> 1, path |-> anchor.path, diff |-> d]>> : d \in RangeDiffs}
  \cup {<<[id |-> 1, path |-> anchor.path, diff |-> d],
          [id |-> 2, path |-> focus.path,
           diff |-> [start |-> 0, end |-> d.start, text |-> d.text]]>> :
          d \in RangeDiffs}

RangeInit ==
  /\ \E anchor \in RangePoints : \E focus \in RangePoints :
       \E pending \in PendingFor(anchor, focus) : \E op \in RangeOps :
         inp = [range |-> [anchor |-> anchor, focus |-> focus],
                pendingDiffs |-> pending, op |-> op]
  /\ out = Null
  /\ aux = Null
  /\ pc = "ready"
  /\ tree = EmptyTree
  /\ path = Null
  /\ last = Idle

\* transformPendingRange(editor, range, op); aux keeps the rebased anchor
TransformPendingRange ==
  /\ pc = "ready"
  /\ out' = transformPendingRange(inp.pendingDiffs, inp.range, inp.op)
  /\ aux' = transformPendingPoint(inp.pendingDiffs, inp.range.anchor, inp.op)
  /\ pc' = "done"
  /\ UNCHANGED <<tree, path, last, inp>>

RangeNext == TransformPendingRange

SpecRange == RangeInit /\ [][RangeNext]_vars

(* C10: transformPendingRange is null when the rebased anchor is null; for a
   collapsed range its focus is the rebased anchor itself; otherwise the focus
   is rebased on its own with transformPendingPoint and the result is null when
   that is null.  A collapsed range rebased through merge_node never gets an
   anchor and a focus on different paths. *)
C10_PendingRange ==
  pc = "done" =>
    LET range == inp.range
        collapsed == range.anchor = range.focus
        focus == transformPendingPoint(inp.pendingDiffs, range.focus, inp.op)
    IN /\ aux = Null => out = Null
       /\ (aux # Null /\ collapsed) =>
            out = Some([anchor |-> Get(aux), focus |-> Get(aux)])
       /\ (aux # Null /\ ~collapsed /\ focus = Null) => out = Null
       /\ (aux # Null /\ ~collapsed /\ focus # Null) =>
            out = Some([anchor |-> Get(aux), focus |-> Get(focus)])
       /\ (collapsed /\ inp.op.type = "merge_node" /\ out # Null) =>
            Get(out).anchor.path = Get(out).focus.path

\* a collapsed range after a pending diff on its leaf, whose leaf is merged away
C10_Witness ==
  /\ pc = "done"
  /\ inp.range.anchor = inp.range.focus
  /\ inp.op.type = "merge_node"
  /\ inp.op.path = inp.range.anchor.path
  /\ inp.op.position > 0
  /\ inp.pendingDiffs # <<>>
  /\ inp.range.anchor.offset > inp.pendingDiffs[1].diff.start
  /\ out # Null
  /\ Get(out).anchor.path # inp.range.anchor.path
  /\ Get(out).focus = Get(out).anchor

----------------------------------------------------------------------------
(* The document and one path rebased through its operation log *)

TextLeaf == [mark |-> FALSE, leaf |-> TRUE, kids |-> <<>>]
Element(kids) == [mark |-> FALSE, leaf |-> FALSE, kids |-> kids]

InitialTrees ==
  {Element(<<TextLeaf>>),
   Element(<<TextLeaf, TextLeaf, TextLeaf>>),
   Element(<<Element(<<TextLeaf, TextLeaf>>), TextLeaf>>),
   Element(<<Element(<<TextLeaf>>), Element(<<TextLeaf>>)>>),
   Element(<<Element(<<Element(<<TextLeaf>>)>>)>>)}

RECURSIVE NodePaths(_)
NodePaths(root) ==
  {<<>>} \cup UNION {{<<i - 1>> \o q : q \in NodePaths(root.kids[i])} :
                       i \in 1..Len(root.kids)}

RECURSIVE Size(_)
RECURSIVE SizeOfAll(_)
SizeOfAll(kids) == IF kids = <<>> THEN 0 ELSE Size(Head(kids)) + SizeOfAll(Tail(kids))
\* the nodes below root
Size(root) == Len(root.kids) + SizeOfAll(root.kids)

Height(root) ==
  LET lens == {Len(q) : q \in NodePaths(root)}
  IN CHOOSE n \in lens : \A m \in lens : m <= n

Marked(root) == {q \in NodePaths(root) : NodeGet(root, q).mark}

\* the places a node can be inserted at: any index of an element's children
InsertPaths(root) ==
  UNION {{q \o <<i>> : i \in 0..Len(NodeGet(root, q).kids)} :
           q \in {r \in NodePaths(root) : ~NodeGet(root, r).leaf}}

Init ==
  /\ \E t \in InitialTrees : \E q \in NodePaths(t) :
       /\ tree = modifyDescendant(t, q, [NodeGet(t, q) EXCEPT !.mark = TRUE])
       /\ path = Some(q)
  /\ last = "init"
  /\ inp = Idle
  /\ out = Null
  /\ aux = Null
  /\ pc = "log"

\* what the operation does to the node the path addresses
Event(operation, p) ==
  IF operation.type = "remove_node" /\ AtOrAbove(operation.path, p) THEN "removed"
  ELSE IF operation.type = "merge_node" /\ operation.path = p THEN "merged"
  ELSE IF operation.type = "split_node" /\ operation.path = p THEN "split"
  ELSE IF operation.type = "move_node" /\ AtOrAbove(operation.path, p) THEN "moved"
  ELSE "other"

\* the operation is applied to the document and the path is rebased through it
Apply(operation, newTree) ==
  /\ path # Null
  /\ Height(newTree) <= MaxDepth
  /\ tree' = newTree
  /\ path' = transform(Get(path), operation, "forward")
  /\ last' = Event(operation, Get(path))
  /\ UNCHANGED <<inp, out, aux, pc>>

InsertNode ==
  /\ Size(tree) < MaxNodes
  /\ \E q \in InsertPaths(tree) : \E leaf \in BOOLEAN :
       Apply([type |-> "insert_node", path |-> q],
             applyInsertNode(tree, q, [mark |-> FALSE, leaf |-> leaf, kids |-> <<>>]))

RemoveNode ==
  \E q \in NodePaths(tree) \ {<<>>} :
    Apply([type |-> "remove_node", path |-> q], applyRemoveNode(tree, q))

\* the node at q is merged into its previous sibling, a node of the same kind;
\* position is the previous sibling's number of children or length of text
MergeNode ==
  \E q \in NodePaths(tree) \ {<<>>} :
    /\ LastIndex(q) > 0
    /\ NodeGet(tree, q).leaf = NodeGet(tree, previous(q)).leaf
    /\ \E position \in (IF NodeGet(tree, q).leaf THEN 0..MaxTextPosition
                        ELSE {Len(NodeGet(tree, previous(q)).kids)}) :
         Apply([type |-> "merge_node", path |-> q, position |-> position],
               applyMergeNode(tree, q))

SplitNode ==
  /\ Size(tree) < MaxNodes
  /\ \E q \in NodePaths(tree) \ {<<>>} :
       \E position \in (IF NodeGet(tree, q).leaf THEN 0..MaxTextPosition
                        ELSE 0..Len(NodeGet(tree, q).kids)) :
         Apply([type |-> "split_node", path |-> q, position |-> position],
               applySplitNode(tree, q, position))

\* newPath addresses a place of the document before the move, not inside the
\* moved node, and the place the node lands at exists once it is taken out
MoveNode ==
  \E q \in NodePaths(tree) \ {<<>>} : \E newPath \in InsertPaths(tree) :
    LET operation == [type |-> "move_node", path |-> q, newPath |-> newPath]
        removed == applyRemoveNode(tree, q)
        landing == truePath(operation)
    IN /\ newPath = q \/ ~AtOrAbove(q, newPath)
       /\ HasPath(removed, parent(landing))
       /\ ~NodeGet(removed, parent(landing)).leaf
       /\ LastIndex(landing) <= Len(NodeGet(removed, parent(landing)).kids)
       /\ Apply(operation, applyMoveNode(tree, operation))

Next ==
  \/ InsertNode
  \/ RemoveNode
  \/ MergeNode
  \/ SplitNode
  \/ MoveNode

Spec == Init /\ [][Next]_vars

(* C1: after any sequence of valid insert_node, remove_node, merge_node,
   split_node and move_node operations, each applied to the document and
   rebased through with Path.transform (forward affinity), the path is null
   only when a remove_node at or above the tracked node removed it, and
   otherwise addresses the tracked node in the current document: the node
   itself, the merge target once it was merged away, the new right-hand node
   once it was split. *)
C1_SameNode ==
  /\ path # Null => /\ HasPath(tree, Get(path))
                    /\ NodeGet(tree, Get(path)).mark
  /\ path = Null => /\ last = "removed"
                    /\ Marked(tree) = {}
  /\ last = "removed" => path = Null

\* the tracked node was merged away and the path addresses the merge target
C1_Witness ==
  /\ last = "merged"
  /\ path # Null
  /\ HasPath(tree, Get(path))
  /\ NodeGet(tree, Get(path)).mark
  /\ Len(Get(path)) > 1

----------------------------------------------------------------------------
(* verifyDiffState: packages/slate-dom/src/utils/diff-text.ts.  The editor is
   a root whose nodes are text leaves carrying a text, or elements. *)

\* leaf texts of at most MaxVerifyText characters, diff texts of at most
\* MaxVerifyInsert characters, at most MaxVerifyKids nodes at the top level
MaxVerifyText == 2
MaxVerifyInsert == 2
MaxVerifyKids == 2

\* Node.isText(node)
isText(node) == node.leaf

\* str.startsWith(search)
startsWith(str, search) ==
  Len(search) <= Len(str) /\ SubSeq(str, 1, Len(search)) = search

verifyDiffStateAppendOnly(editor, textDiff) ==
  LET p == textDiff.path
      diff == textDiff.diff
  IN IF ~HasPath(editor, p) THEN FALSE
     ELSE LET node == NodeGet(editor, p) IN
          IF ~isText(node) THEN FALSE
          ELSE IF diff.start # Len(node.text)
          THEN slice(node.text, diff.start, diff.start + Len(diff.text)) = diff.text
          ELSE LET nextPath == next(p) IN
               IF ~HasPath(editor, nextPath) THEN FALSE
               ELSE LET nextNode == NodeGet(editor, nextPath)
                    IN isText(nextNode) /\ startsWith(nextNode.text, diff.text)

verifyDiffState(editor, textDiff) ==
  LET p == textDiff.path
      diff == textDiff.diff
  IN IF ~HasPath(editor, p) THEN FALSE
     ELSE LET node == NodeGet(editor, p) IN
          IF ~isText(node) THEN FALSE
          ELSE IF diff.start # Len(node.text) \/ Len(diff.text) = 0
          THEN slice(node.text, diff.start, diff.start + Len(diff.text)) = diff.text
          ELSE LET nextPath == next(p) IN
               IF ~HasPath(editor, nextPath) THEN FALSE
               ELSE LET nextNode == NodeGet(editor, nextPath)
                    IN isText(nextNode) /\ startsWith(nextNode.text, diff.text)

TextNode(str) == [mark |-> FALSE, leaf |-> TRUE, kids |-> <<>>, text |-> str]
VerifyNodes ==
  {TextNode(str) : str \in StringsUpTo(MaxVerifyText)}
  \cup {Element(<<>>), Element(<<TextNode(<<"a">>)>>)}
VerifyEditors ==
  {Element(kids) : kids \in UNION {[1..n -> VerifyNodes] : n \in 1..MaxVerifyKids}}
VerifyPaths == {<<>>} \cup {<<i>> : i \in 0..MaxVerifyKids} \cup {<<0, 0>>}
VerifyDiffs ==
  {[start |-> s, end |-> s, text |-> str] :
     s \in 0..MaxVerifyText, str \in StringsUpTo(MaxVerifyInsert)}

VerifyInit ==
  /\ tree \in VerifyEditors
  /\ \E p \in VerifyPaths : \E d \in VerifyDiffs :
       inp = [id |-> 0, path |-> p, diff |-> d]
  /\ out = Null
  /\ aux = Null
  /\ pc = "ready"
  /\ path = Null
  /\ last = Idle

VerifyDiffState ==
  /\ pc = "ready"
  /\ out' = Some(verifyDiffState(tree, inp))
  /\ pc' = "done"
  /\ UNCHANGED <<tree, path, last, inp, aux>>

VerifyNext == VerifyDiffState

SpecVerify == VerifyInit /\ [][VerifyNext]_vars

\* the diff's path resolves to a text leaf of the editor
ResolvesToLeaf == HasPath(tree, inp.path) /\ isText(NodeGet(tree, inp.path))
\* the leaf's content at [start, start + text.length), as far as the leaf reaches,
\* is the diff's text
LandedVerbatim ==
  LET text == NodeGet(tree, inp.path).text
  IN SubSeq(text, inp.diff.start + 1,
            Min(inp.diff.start + Len(inp.diff.text), Len(text))) = inp.diff.text

(* C11 as stated: for a diff whose path resolves to a text leaf, whenever the
   diff's start is not the leaf's text length or the diff's text is non-empty,
   verifyDiffState is true exactly when the leaf's content at
   [start, start + text.length) equals the diff's text. *)
C11_AsStated ==
  (pc = "done" /\ ResolvesToLeaf
   /\ (inp.diff.start # Len(NodeGet(tree, inp.path).text) \/ inp.diff.text # <<>>))
    => (Get(out) <=> LandedVerbatim)

(* C11: for a diff whose path resolves to a text leaf, whenever the diff's
   start is not the leaf's text length or the diff's text is empty,
   verifyDiffState is true exactly when the leaf's content at
   [start, start + text.length) equals the diff's text. *)
C11_Verify ==
  (pc = "done" /\ ResolvesToLeaf
   /\ (inp.diff.start # Len(NodeGet(tree, inp.path).text) \/ inp.diff.text = <<>>))
    => (Get(out) <=> LandedVerbatim)

\* an empty diff at the end of the last leaf is valid
C11_Witness ==
  /\ pc = "done" /\ ResolvesToLeaf
  /\ inp.diff.start = Len(NodeGet(tree, inp.path).text)
  /\ inp.diff.text = <<>>
  /\ ~HasPath(tree, next(inp.path))
  /\ Get(out)

----------------------------------------------------------------------------
(* Path.next / Path.previous / Path.parent / Path.relative as called by a
   host: packages/slate/src/interfaces/path.ts, and the second implementation.
   A call either throws or returns a path. *)

\* paths drawn for these calls: at most MaxNavLen indices, each in 0..MaxNavIndex
MaxNavLen == 3
MaxNavIndex == 2

Throws == [throws |-> TRUE, value |-> <<>>]
Returns(v) == [throws |-> FALSE, value |-> v]

RECURSIVE compareFrom(_, _, _, _)
compareFrom(p, another, min, i) ==
  IF i < min
  THEN IF p[i + 1] < another[i + 1] THEN -1
       ELSE IF p[i + 1] > another[i + 1] THEN 1
       ELSE compareFrom(p, another, min, i + 1)
  ELSE 0

compare(p, another) == compareFrom(p, another, Min(Len(p), Len(another)), 0)

isAncestor(p, another) == Len(p) < Len(another) /\ compare(p, another) = 0

isCommon(p, another) == Len(p) <= Len(another) /\ compare(p, another) = 0

nextCall(p) == IF Len(p) = 0 THEN Throws ELSE Returns(next(p))

parentCall(p) == IF Len(p) = 0 THEN Throws ELSE Returns(parent(p))

previousCall(p) ==
  IF Len(p) = 0 THEN Throws
  ELSE LET lastIndex == p[Len(p)]
       IN IF lastIndex <= 0 THEN Throws ELSE Returns(previous(p))

relativeAncestorOnly(p, ancestor) ==
  IF ~isAncestor(ancestor, p)
  THEN Throws
  ELSE Returns(SubSeq(p, Len(ancestor) + 1, Len(p)))

relative(p, ancestor) ==
  IF ~isAncestor(ancestor, p) /\ ~equals(p, ancestor)
  THEN Throws
  ELSE Returns(SubSeq(p, Len(ancestor) + 1, Len(p)))

\* the second implementation: out = path.slice(); out[path.length - 1] += 1
next000Call(p) ==
  IF Len(p) = 0 THEN Throws ELSE Returns([p EXCEPT ![Len(p)] = p[Len(p)] + 1])

\* the second implementation: out = path.slice(); out[path.length - 1] = last
previous000Call(p) ==
  IF Len(p) = 0 THEN Throws
  ELSE LET lastIndex == p[Len(p)]
       IN IF lastIndex <= 0 THEN Throws
          ELSE Returns([p EXCEPT ![Len(p)] = lastIndex])

relative000(p, ancestor) ==
  IF ~isCommon(ancestor, p)
  THEN Throws
  ELSE Returns(SubSeq(p, Len(ancestor) + 1, Len(p)))

NavPaths == PathsUpTo(MaxNavLen, MaxNavIndex)

\* out is the call's outcome in path.ts, aux its outcome in the second implementation
NavInit ==
  /\ \/ \E fn \in {"next", "previous", "parent"} : \E p \in NavPaths :
          inp = [fn |-> fn, path |-> p, ancestor |-> <<>>]
     \/ \E p \in NavPaths : \E ancestor \in NavPaths :
          inp = [fn |-> "relative", path |-> p, ancestor |-> ancestor]
  /\ out = Null
  /\ aux = Null
  /\ pc = "ready"
  /\ tree = EmptyTree
  /\ path = Null
  /\ last = Idle

CallNext ==
  /\ pc = "ready" /\ inp.fn = "next"
  /\ out' = Some(nextCall(inp.path))
  /\ aux' = Some(next000Call(inp.path))
  /\ pc' = "done"
  /\ UNCHANGED <<tree, path, last, inp>>

CallPrevious ==
  /\ pc = "ready" /\ inp.fn = "previous"
  /\ out' = Some(previousCall(inp.path))
  /\ aux' = Some(previous000Call(inp.path))
  /\ pc' = "done"
  /\ UNCHANGED <<tree, path, last, inp>>

CallParent ==
  /\ pc = "ready" /\ inp.fn = "parent"
  /\ out' = Some(parentCall(inp.path))
  /\ aux' = out'
  /\ pc' = "done"
  /\ UNCHANGED <<tree, path, last, inp>>

CallRelative ==
  /\ pc = "ready" /\ inp.fn = "relative"
  /\ out' = Some(relative(inp.path, inp.ancestor))
  /\ aux' = Some(relative000(inp.path, inp.ancestor))
  /\ pc' = "done"
  /\ UNCHANGED <<tree, path, last, inp>>

\* Path.previous(Path.next(p)), in each implementation
PreviousOfNext ==
  /\ pc = "done" /\ inp.fn = "next"
  /\ ~Get(out).throws
  /\ out' = Some(previousCall(Get(out).value))
  /\ aux' = Some(previous000Call(Get(aux).value))
  /\ pc' = "again"
  /\ UNCHANGED <<tree, path, last, inp>>

\* Path.next(Path.previous(p)), in each implementation
NextOfPrevious ==
  /\ pc = "done" /\ inp.fn = "previous"
  /\ ~Get(out).throws
  /\ out' = Some(nextCall(Get(out).value))
  /\ aux' = Some(next000Call(Get(aux).value))
  /\ pc' = "again"
  /\ UNCHANGED <<tree, path, last, inp>>

NavNext ==
  \/ CallNext
  \/ CallPrevious
  \/ CallParent
  \/ CallRelative
  \/ PreviousOfNext
  \/ NextOfPrevious

SpecNav == NavInit /\ [][NavNext]_vars

\* the outcome r is: returned p with its last index decremented by one
Decremented(r, p) == ~r.throws /\ r.value = WithIndex(p, Len(p) - 1, -1)
\* the outcome r is: returned p
Same(r, p) == ~r.throws /\ r.value = p
HasPrevious(p) == Len(p) > 0 /\ p[Len(p)] > 0

(* C12 as stated, for both implementations of Path.previous: for a non-root
   path p whose last index is greater than 0, Path.previous(p) is p with its
   last index decremented by one, Path.previous(Path.next(p)) is p and
   Path.next(Path.previous(p)) is p. *)
C12_AsStated ==
  /\ (pc = "done" /\ inp.fn = "previous" /\ HasPrevious(inp.path))
       => Decremented(Get(out), inp.path) /\ Decremented(Get(aux), inp.path)
  /\ (pc = "again" /\ inp.fn = "previous" /\ HasPrevious(inp.path))
       => Same(Get(out), inp.path) /\ Same(Get(aux), inp.path)
  /\ (pc = "again" /\ inp.fn = "next" /\ Len(inp.path) > 0)
       => Same(Get(out), inp.path) /\ Same(Get(aux), inp.path)

(* C12 for path.ts alone: for a non-root path p whose last index is greater
   than 0, Path.previous(p) is p with its last index decremented by one,
   Path.previous(Path.next(p)) is p and Path.next(Path.previous(p)) is p. *)
C12_PathTs ==
  /\ (pc = "done" /\ inp.fn = "previous" /\ HasPrevious(inp.path))
       => Decremented(Get(out), inp.path)
  /\ (pc = "again" /\ inp.fn = "previous" /\ HasPrevious(inp.path))
       => Same(Get(out), inp.path)
  /\ (pc = "again" /\ inp.fn = "next" /\ Len(inp.path) > 0)
       => Same(Get(out), inp.path)

\* the second implementation returned the path it was given as its previous path
C12_Witness ==
  /\ pc = "done" /\ inp.fn = "previous" /\ HasPrevious(inp.path)
  /\ Len(inp.path) > 1
  /\ Decremented(Get(out), inp.path)
  /\ Same(Get(aux), inp.path)

(* C13: Path.next, Path.previous and Path.parent throw on the root path,
   Path.previous throws when the last index is 0, Path.relative(path, ancestor)
   throws exactly when ancestor is neither path nor a proper prefix of it and
   otherwise returns the suffix s with ancestor \o s = path; on every other
   input the call returns a path. *)
C13_Throws ==
  pc = "done" =>
    LET r == Get(out)
        p == inp.path
    IN /\ inp.fn \in {"next", "parent"} => (r.throws <=> p = <<>>)
       /\ inp.fn = "previous" => (r.throws <=> ~HasPrevious(p))
       /\ inp.fn = "relative" =>
            /\ r.throws <=> ~AtOrAbove(inp.ancestor, p)
            /\ ~r.throws => inp.ancestor \o r.value = p
            /\ Get(aux) = r
       /\ ~r.throws => r.value \in Seq(Nat)

\* relative to itself a path is the empty path, and a first child has no previous path
C13_Witness ==
  /\ pc = "done" /\ inp.fn = "relative"
  /\ inp.ancestor = inp.path /\ inp.path # <<>>
  /\ Get(out) = Returns(<<>>)

----------------------------------------------------------------------------
(* Operations that do not change the tree's shape: insert_text, remove_text
   and set_node, through Path.transform and Point.transform *)

TextOps(paths) ==
  [type : {"insert_text", "remove_text"}, path : paths,
   offset : 0..MaxOffset, text : OpTexts]
SetNodeOps(paths) == [type : {"set_node"}, path : paths]

FrameInit ==
  /\ \/ inp \in [fn : {"path"}, path : Paths,
                 op : TextOps(OpPaths) \cup SetNodeOps(Paths), affinity : Affinities]
     \/ inp \in [fn : {"point"}, point : Points,
                 op : TextOps(PointPaths) \cup SetNodeOps(PointPaths),
                 affinity : Affinities]
  /\ out = Null
  /\ aux = Null
  /\ pc = "ready"
  /\ tree = EmptyTree
  /\ path = Null
  /\ last = Idle

\* out is Path.transform of path.ts, aux the second implementation's
FramePathTransform ==
  /\ pc = "ready" /\ inp.fn = "path"
  /\ out' = transform(inp.path, inp.op, inp.affinity)
  /\ aux' = transform000(inp.path, inp.op, inp.affinity)
  /\ pc' = "done"
  /\ UNCHANGED <<tree, path, last, inp>>

\* aux is whether Point.transform consults Path.transform for the operation
FramePointTransform ==
  /\ pc = "ready" /\ inp.fn = "point"
  /\ out' = pointTransform(inp.point, inp.op, inp.affinity)
  /\ aux' = Some(operationCanTransformPath(inp.op))
  /\ pc' = "done"
  /\ UNCHANGED <<tree, path, last, inp>>

FrameNext ==
  \/ FramePathTransform
  \/ FramePointTransform

SpecFrame == FrameInit /\ [][FrameNext]_vars

(* C14: for every path p and every insert_text, remove_text or set_node
   operation, Path.transform returns a path equal to p; Point.transform
   returns a point on the point's own path, and the point itself when the
   operation's path is not the point's path. *)
C14_Frame ==
  /\ (pc = "done" /\ inp.fn = "path") =>
       /\ out = Some(inp.path)
       /\ aux = Some(inp.path)
  /\ (pc = "done" /\ inp.fn = "point") =>
       /\ out # Null
       /\ Get(out).path = inp.point.path
       /\ inp.op.path # inp.point.path => out = Some(inp.point)
       /\ aux = Some(FALSE)

\* a set_node on an ancestor of the path reaches the switch of Path.transform
C14_Witness ==
  /\ pc = "done" /\ inp.fn = "path"
  /\ inp.op.type = "set_node"
  /\ Len(inp.op.path) = 1 /\ Len(inp.path) = 2
  /\ inp.path[1] = inp.op.path[1]
  /\ out = Some(inp.path)

----------------------------------------------------------------------------
(* merge_node through Path.transform, under SpecPath *)

\* what C15 says Path.transform returns for merge_node at op, position k
MergeExpected(p, op, k) ==
  IF p = op \/ EarlierSibling(op, p)
  THEN Some(WithIndex(p, Len(op) - 1, -1))
  ELSE IF AtOrAbove(op, p)
       THEN Some(WithIndex(WithIndex(p, Len(op) - 1, -1), Len(op), k))
       ELSE Some(p)

\* r is a path of the length of p whose indices are non-negative integers
WellFormedLike(r, p) ==
  /\ r # Null
  /\ Len(Get(r)) = Len(p)
  /\ \A i \in 1..Len(Get(r)) : Get(r)[i] \in Nat

(* C15 as stated, for both implementations of Path.transform: for merge_node
   at op with position k, a path equal to op or with op as an earlier sibling
   (of it or of an ancestor) has the index at depth op.length-1 decremented;
   a path strictly inside op has that index decremented and the index at depth
   op.length increased by k; any other path is unchanged; the result has the
   length of p and non-negative integer indices. *)
C15_AsStated ==
  PathDone("merge_node") =>
    LET expected == MergeExpected(inp.path, inp.op.path, inp.op.position)
    IN /\ out = expected /\ WellFormedLike(out, inp.path)
       /\ aux = expected /\ WellFormedLike(aux, inp.path)

(* C15 for path.ts alone: for merge_node at op with position k, Path.transform
   decrements the index at depth op.length-1 of a path equal to op or with op
   as an earlier sibling, decrements it and adds k one level deeper for a path
   strictly inside op, and returns any other path unchanged. *)
C15_PathTs ==
  PathDone("merge_node") =>
    /\ out = MergeExpected(inp.path, inp.op.path, inp.op.position)
    /\ WellFormedLike(out, inp.path)

\* the second implementation grows the merged-away node's own path by an index
C15_Witness ==
  /\ PathDone("merge_node")
  /\ inp.path = inp.op.path
  /\ out = Some(WithIndex(inp.path, Len(inp.path) - 1, -1))
  /\ aux # Null
  /\ Len(Get(aux)) = Len(inp.path) + 1

----------------------------------------------------------------------------
(* move_node through Path.transform, in both implementations *)

\* paths, origins and destinations of at most MaxMoveLen indices in 0..MaxMoveIndex
MaxMoveLen == 2
MaxMoveIndex == 2

MovePaths == PathsUpTo(MaxMoveLen, MaxMoveIndex)
MoveNodeOps == [type : {"move_node"}, path : MovePaths \ {<<>>}, newPath : MovePaths \ {<<>>}]

MoveInit ==
  /\ inp \in [path : MovePaths, op : MoveNodeOps, affinity : {"forward"}]
  /\ out = Null
  /\ aux = Null
  /\ pc = "ready"
  /\ tree = EmptyTree
  /\ path = Null
  /\ last = Idle

\* out is Path.transform of path.ts, aux the second implementation's
TransformMoveNode(inside) ==
  /\ pc = "ready"
  /\ inside = (commonDepth(inp.path, inp.op.path) = Len(inp.op.path))
  /\ out' = transform(inp.path, inp.op, inp.affinity)
  /\ aux' = transform000(inp.path, inp.op, inp.affinity)
  /\ pc' = "done"
  /\ UNCHANGED <<tree, path, last, inp>>

\* the path is the moved node or inside it
TransformMovedPath == TransformMoveNode(TRUE)
\* the path is outside the moved node
TransformOtherPath == TransformMoveNode(FALSE)

MoveNext ==
  \/ TransformMovedPath
  \/ TransformOtherPath

SpecMove == MoveInit /\ [][MoveNext]_vars

\* what C16 says Path.transform returns for a path at or inside the moved node
MoveInsideExpected(p, op, newPath) ==
  IF AtOrAbove(op, newPath) THEN Some(p)
  ELSE LET spliced == newPath \o SubSeq(p, Len(op) + 1, Len(p))
       IN IF EarlierSibling(op, newPath) /\ Len(op) < Len(newPath)
          THEN Some(WithIndex(spliced, Len(op) - 1, -1))
          ELSE Some(spliced)

MoveInsideDone == pc = "done" /\ AtOrAbove(inp.op.path, inp.path)

(* C16 as stated, for both implementations of Path.transform: for move_node
   from op to newPath and a path p at or inside op, p is unchanged when newPath
   is op or a descendant of op; otherwise the result is newPath followed by
   the part of p below op, with the index at depth op.length-1 decremented
   exactly when op is an earlier sibling of newPath's ancestor at that depth
   and op is shorter than newPath. *)
C16_AsStated ==
  MoveInsideDone =>
    LET expected == MoveInsideExpected(inp.path, inp.op.path, inp.op.newPath)
    IN out = expected /\ aux = expected

(* C16 for path.ts alone: for move_node from op to newPath and a path p at or
   inside op, Path.transform returns p when newPath is op or below op, and
   otherwise newPath followed by the part of p below op, compensated by -1 at
   depth op.length-1 when op is an earlier sibling on newPath's way and
   shorter than newPath. *)
C16_PathTs ==
  MoveInsideDone =>
    out = MoveInsideExpected(inp.path, inp.op.path, inp.op.newPath)

\* a node moved up beside its parent: the second implementation leaves its path alone
C16_Witness ==
  /\ MoveInsideDone
  /\ Len(inp.op.newPath) < Len(inp.op.path)
  /\ AtOrAbove(inp.op.newPath, inp.op.path)
  /\ out = Some(inp.op.newPath \o SubSeq(inp.path, Len(inp.op.path) + 1, Len(inp.path)))
  /\ aux = Some(inp.path)

\* p rebased through remove_node at op, then through insert_node at the path
\* the moved node ends up at
RemoveThenInsert(p, operation) ==
  LET removed == transform(p, [type |-> "remove_node", path |-> operation.path],
                           "forward")
      landing == transform(operation.path, operation, "forward")
  IN IF removed = Null \/ landing = Null THEN Null
     ELSE transform(Get(removed), [type |-> "insert_node", path |-> Get(landing)],
                    "forward")

ValidMove(operation) == ~AtOrAbove(operation.path, operation.newPath)
MoveOutsideDone ==
  pc = "done" /\ ValidMove(inp.op) /\ ~AtOrAbove(inp.op.path, inp.path)
\* op and newPath are both earlier siblings of p, or of the same ancestor of p
BothEarlierSiblings(p, operation) ==
  /\ EarlierSibling(operation.path, p)
  /\ EarlierSibling(operation.newPath, p)
  /\ Len(operation.path) = Len(operation.newPath)

(* C17 as stated, for both implementations of Path.transform: for a valid
   move_node from op to newPath and a path p outside op, the result is p
   rebased through remove_node at op and then through insert_node at
   Path.transform(op, move); p is unchanged when op and newPath are both
   earlier siblings of p at the same depth; the result is never null. *)
C17_AsStated ==
  MoveOutsideDone =>
    LET expected == RemoveThenInsert(inp.path, inp.op)
    IN /\ expected # Null
       /\ out = expected /\ aux = expected
       /\ BothEarlierSiblings(inp.path, inp.op)
            => out = Some(inp.path) /\ aux = Some(inp.path)

(* C17 for path.ts alone: for a valid move_node from op to newPath and a path
   p outside op, Path.transform returns p rebased through remove_node at op
   and then insert_node at Path.transform(op, move), which is p itself when op
   and newPath are both earlier siblings of p at the same depth, and never
   null. *)
C17_PathTs ==
  MoveOutsideDone =>
    /\ out # Null
    /\ out = RemoveThenInsert(inp.path, inp.op)
    /\ BothEarlierSiblings(inp.path, inp.op) => out = Some(inp.path)

\* an earlier sibling moved onto the path's own place: the second
\* implementation cancels the removal against an insertion that is not before the path
C17_Witness ==
  /\ MoveOutsideDone
  /\ EarlierSibling(inp.op.path, inp.path)
  /\ inp.op.newPath = inp.path
  /\ out = Some(WithIndex(inp.path, Len(inp.path) - 1, -1))
  /\ aux = Some(inp.path)

----------------------------------------------------------------------------
(* Text operations on the point's own leaf, under SpecPoint *)

OnOwnLeaf(type) ==
  pc = "done" /\ inp.op.type = type /\ inp.op.path = inp.point.path

(* C18: for remove_text on exactly the point's path at offset o removing L
   characters, Point.transform returns the same path with offset
   max(o, offset - L) when o < offset, and the point unchanged otherwise; the
   resulting offset is never negative, never greater than the original offset,
   and never below o when the point was after o. *)
C18_RemoveText ==
  OnOwnLeaf("remove_text") =>
    LET pt == inp.point
        o == inp.op.offset
        L == Len(inp.op.text)
    IN /\ o < pt.offset =>
            out = Some([path |-> pt.path,
                        offset |-> IF pt.offset - L < o THEN o ELSE pt.offset - L])
       /\ o >= pt.offset => out = Some(pt)
       /\ out # Null
       /\ Get(out).offset >= 0
       /\ Get(out).offset <= pt.offset
       /\ o < pt.offset => Get(out).offset >= o

\* a removal that reaches past the point leaves it at the removal's start
C18_Witness ==
  /\ OnOwnLeaf("remove_text")
  /\ inp.op.offset < inp.point.offset
  /\ inp.op.offset + Len(inp.op.text) > inp.point.offset
  /\ inp.op.offset > 0
  /\ out = Some([path |-> inp.point.path, offset |-> inp.op.offset])

(* C19: for insert_text on exactly the point's path at offset o inserting L
   characters, Point.transform returns the same path with offset + L when
   o < offset, or o = offset with forward affinity; the point is unchanged when
   o > offset, or o = offset with backward or no affinity; it is never null. *)
C19_InsertText ==
  OnOwnLeaf("insert_text") =>
    LET pt == inp.point
        o == inp.op.offset
        L == Len(inp.op.text)
    IN /\ (o < pt.offset \/ (o = pt.offset /\ inp.affinity = "forward")) =>
            out = Some([path |-> pt.path, offset |-> pt.offset + L])
       /\ (o > pt.offset \/ (o = pt.offset /\ inp.affinity \in {"backward", "none"})) =>
            out = Some(pt)
       /\ out # Null

\* an insertion at the point itself, with backward affinity, leaves it in place
C19_Witness ==
  /\ OnOwnLeaf("insert_text")
  /\ inp.op.offset = inp.point.offset
  /\ inp.affinity = "backward"
  /\ Len(inp.op.text) > 0
  /\ out = Some(inp.point)

----------------------------------------------------------------------------
(* transformTextDiff: packages/slate-dom/src/utils/diff-text.ts *)

\* leaves of at most MaxLeafLen characters, pending texts of at most
\* MaxPendingText characters
MaxLeafLen == 3
MaxPendingText == 1

textDiffInsertTextCase(textDiff, op) ==
  LET diff == textDiff.diff
      length == Len(op.text)
  IN IF op.offset <= diff.start
     THEN Some([textDiff EXCEPT !.diff = [start |-> diff.start + length,
                                          end |-> diff.end + length,
                                          text |-> diff.text]])
     ELSE IF op.offset < diff.end
          THEN Some([textDiff EXCEPT !.diff = [start |-> diff.start,
                                               end |-> diff.end + length,
                                               text |-> diff.text]])
          ELSE Some(textDiff)

textDiffRemoveTextCase(textDiff, op) ==
  LET diff == textDiff.diff
      length == Len(op.text)
  IN IF op.offset + length <= diff.start
     THEN Some([textDiff EXCEPT !.diff = [start |-> diff.start - length,
                                          end |-> diff.end - length,
                                          text |-> diff.text]])
     ELSE IF op.offset < diff.end
          THEN Some([textDiff EXCEPT !.diff = [start |-> diff.start,
                                               end |-> diff.end - length,
                                               text |-> diff.text]])
          ELSE Some(textDiff)

textDiffSplitNodeCaseStrict(textDiff, op) ==
  LET diff == textDiff.diff
  IN IF op.position < diff.start
     THEN Some([id |-> textDiff.id,
                path |-> next(textDiff.path),
                diff |-> [start |-> diff.start - op.position,
                          end |-> diff.end - op.position,
                          text |-> diff.text]])
     ELSE IF op.position < diff.end
          THEN Some([textDiff EXCEPT !.diff = [start |-> diff.start,
                                               end |-> Min(op.position, diff.end),
                                               text |-> diff.text]])
          ELSE Some(textDiff)

textDiffSplitNodeCase(textDiff, op) ==
  LET diff == textDiff.diff
  IN IF op.position <= diff.start
     THEN Some([id |-> textDiff.id,
                path |-> next(textDiff.path),
                diff |-> [start |-> diff.start - op.position,
                          end |-> diff.end - op.position,
                          text |-> diff.text]])
     ELSE IF op.position < diff.end
          THEN Some([textDiff EXCEPT !.diff = [start |-> diff.start,
                                               end |-> Min(op.position, diff.end),
                                               text |-> diff.text]])
          ELSE Some(textDiff)

textDiffMergeNodeCase(textDiff, op) ==
  LET diff == textDiff.diff
  IN Some([id |-> textDiff.id,
           path |-> Get(transform(textDiff.path, op, "forward")),
           diff |-> [start |-> diff.start + op.position,
                     end |-> diff.end + op.position,
                     text |-> diff.text]])

transformTextDiffKeepsDestroyed(textDiff, op) ==
  IF equals(op.path, textDiff.path)
     /\ op.type \in {"insert_text", "remove_text", "split_node", "merge_node"}
  THEN CASE op.type = "insert_text" -> textDiffInsertTextCase(textDiff, op)
         [] op.type = "remove_text" -> textDiffRemoveTextCase(textDiff, op)
         [] op.type = "split_node" -> textDiffSplitNodeCase(textDiff, op)
         [] op.type = "merge_node" -> textDiffMergeNodeCase(textDiff, op)
  ELSE IF ~operationCanTransformPath(op) THEN Some(textDiff)
       ELSE LET newPath == transform(textDiff.path, op, "forward")
            IN IF newPath = Null THEN Some(textDiff)
               ELSE Some([textDiff EXCEPT !.path = Get(newPath)])

transformTextDiff(textDiff, op) ==
  IF equals(op.path, textDiff.path)
     /\ op.type \in {"insert_text", "remove_text", "split_node", "merge_node"}
  THEN CASE op.type = "insert_text" -> textDiffInsertTextCase(textDiff, op)
         [] op.type = "remove_text" -> textDiffRemoveTextCase(textDiff, op)
         [] op.type = "split_node" -> textDiffSplitNodeCase(textDiff, op)
         [] op.type = "merge_node" -> textDiffMergeNodeCase(textDiff, op)
  ELSE IF ~operationCanTransformPath(op) THEN Some(textDiff)
       ELSE LET newPath == transform(textDiff.path, op, "forward")
            IN IF newPath = Null THEN Null
               ELSE Some([textDiff EXCEPT !.path = Get(newPath)])

TextDiffPaths == {<<0>>, <<1>>, <<1, 0>>}
TextDiffOpPaths == TextDiffPaths \cup {<<2>>}

\* the pending diffs of a leaf of n characters
TextDiffsOn(n) ==
  {td \in [id : {0}, path : TextDiffPaths,
           diff : [start : 0..n, end : 0..n,
                   text : {Filler(k) : k \in 0..MaxPendingText}]] :
     td.diff.start <= td.diff.end}

\* the operations drawn against a leaf of n characters: a text operation stays
\* within the leaf's text
TextDiffOps(n) ==
  [type : {"insert_text"}, path : TextDiffOpPaths, offset : 0..n,
   text : {Filler(k) : k \in 0..MaxLeafLen}]
  \cup {o \in [type : {"remove_text"}, path : TextDiffOpPaths, offset : 0..n,
               text : {Filler(k) : k \in 0..n}] : o.offset + Len(o.text) <= n}
  \cup [type : {"split_node"}, path : TextDiffOpPaths, position : 0..n]
  \cup [type : {"merge_node"}, path : {<<1>>, <<2>>}, position : 0..MaxLeafLen]
  \cup [type : {"insert_node", "remove_node", "set_node"}, path : TextDiffOpPaths]
  \cup {o \in [type : {"move_node"}, path : TextDiffOpPaths,
               newPath : TextDiffOpPaths] : o.path # o.newPath}

TextDiffInit ==
  /\ \E n \in 0..MaxLeafLen : \E td \in TextDiffsOn(n) : \E op \in TextDiffOps(n) :
       inp = [length |-> n, textDiff |-> td, op |-> op]
  /\ out = Null
  /\ aux = Null
  /\ pc = "ready"
  /\ tree = EmptyTree
  /\ path = Null
  /\ last = Idle

TransformTextDiff(types) ==
  /\ pc = "ready"
  /\ inp.op.type \in types
  /\ out' = transformTextDiff(inp.textDiff, inp.op)
  /\ pc' = "done"
  /\ UNCHANGED <<tree, path, last, inp, aux>>

TextDiffInsertText == TransformTextDiff({"insert_text"})
TextDiffRemoveText == TransformTextDiff({"remove_text"})
TextDiffSplitNode == TransformTextDiff({"split_node"})
TextDiffMergeNode == TransformTextDiff({"merge_node"})
TextDiffOtherOp ==
  TransformTextDiff({"insert_node", "remove_node", "move_node", "set_node"})

TextDiffNext ==
  \/ TextDiffInsertText
  \/ TextDiffRemoveText
  \/ TextDiffSplitNode
  \/ TextDiffMergeNode
  \/ TextDiffOtherOp

SpecTextDiff == TextDiffInit /\ [][TextDiffNext]_vars

RemoveOnOwnLeaf ==
  pc = "done" /\ inp.op.type = "remove_text" /\ inp.op.path = inp.textDiff.path
\* the diff td with its bounds replaced
WithBounds(td, start, end) ==
  [id |-> td.id, path |-> td.path,
   diff |-> [start |-> start, end |-> end, text |-> td.diff.text]]

\* what transformTextDiff does to the bounds, clamping apart
RemoveTextShifts ==
  LET td == inp.textDiff
      o == inp.op.offset
      L == Len(inp.op.text)
  IN /\ o + L <= td.diff.start =>
          out = Some(WithBounds(td, td.diff.start - L, td.diff.end - L))
     /\ (o + L > td.diff.start /\ o < td.diff.end) =>
          /\ out # Null
          /\ Get(out).diff.start = td.diff.start
          /\ Get(out).diff.end <= td.diff.end
          /\ Get(out) = WithBounds(td, td.diff.start, Get(out).diff.end)
     /\ (o >= td.diff.end /\ o + L > td.diff.start) => out = Some(td)

(* C20 as stated: for a pending diff with 0 <= start <= end and a remove_text
   on the diff's own leaf within the leaf's text, a removal wholly before
   start shifts start and end left by the removed length, a removal reaching
   into the diff's span shrinks only end, a removal at or after end leaves the
   diff unchanged, and the resulting diff always satisfies 0 <= start <= end. *)
C20_AsStated ==
  RemoveOnOwnLeaf =>
    /\ RemoveTextShifts
    /\ out # Null
    /\ 0 <= Get(out).diff.start
    /\ Get(out).diff.start <= Get(out).diff.end

(* C20 without the clamp: for a remove_text on the diff's own leaf, a removal
   wholly before start shifts start and end left by the removed length, a
   removal reaching into the span leaves start and lowers end, and a removal
   at or after end leaves the diff unchanged. *)
C20_Shifts == RemoveOnOwnLeaf => RemoveTextShifts

\* a removal that covers the diff's start and more leaves end before start
C20_Witness ==
  /\ RemoveOnOwnLeaf
  /\ inp.op.offset < inp.textDiff.diff.start
  /\ out # Null
  /\ Get(out).diff.end < Get(out).diff.start

----------------------------------------------------------------------------
(* split_node and the operations off the diff's leaf through
   transformTextDiff, under SpecTextDiff *)

SplitOnOwnLeaf ==
  pc = "done" /\ inp.op.type = "split_node" /\ inp.op.path = inp.textDiff.path

\* the diff td moved to the next sibling leaf, its bounds shifted left by k
MovedToNext(td, k) ==
  [id |-> td.id, path |-> NextSibling(td.path),
   diff |-> [start |-> td.diff.start - k, end |-> td.diff.end - k,
             text |-> td.diff.text]]

(* C21 as stated: for split_node on the diff's own leaf with position k,
   k <= start gives the same id and text at the next sibling path with bounds
   (start - k, end - k); start < k < end keeps path, start and text and
   truncates end to k; k >= end returns the diff unchanged. *)
C21_AsStated ==
  SplitOnOwnLeaf =>
    LET td == inp.textDiff
        k == inp.op.position
    IN /\ k <= td.diff.start => out = Some(MovedToNext(td, k))
       /\ (td.diff.start < k /\ k < td.diff.end) =>
            out = Some(WithBounds(td, td.diff.start, k))
       /\ k >= td.diff.end => out = Some(td)

(* C21: for split_node on the diff's own leaf with position k, k <= start
   gives the same id and text at the next sibling path with bounds
   (start - k, end - k); start < k < end keeps path, start and text and
   truncates end to k; k >= end with k > start returns the diff unchanged. *)
C21_SplitNode ==
  SplitOnOwnLeaf =>
    LET td == inp.textDiff
        k == inp.op.position
    IN /\ k <= td.diff.start => out = Some(MovedToNext(td, k))
       /\ (td.diff.start < k /\ k < td.diff.end) =>
            out = Some(WithBounds(td, td.diff.start, k))
       /\ (k >= td.diff.end /\ k > td.diff.start) => out = Some(td)

\* a split exactly at a collapsed diff carries the diff to the new leaf
C21_Witness ==
  /\ SplitOnOwnLeaf
  /\ inp.op.position = inp.textDiff.diff.start
  /\ inp.op.position = inp.textDiff.diff.end
  /\ inp.op.position > 0
  /\ out = Some(MovedToNext(inp.textDiff, inp.op.position))

\* the operation is not a text operation, a split or a merge on the diff's own leaf
OffOwnLeaf ==
  /\ pc = "done"
  /\ ~(/\ inp.op.path = inp.textDiff.path
       /\ inp.op.type \in {"insert_text", "remove_text", "split_node", "merge_node"})
Structural(operation) ==
  operation.type \in {"insert_node", "remove_node", "merge_node",
                      "split_node", "move_node"}

(* C22: for an operation that is not insert_text, remove_text, split_node or
   merge_node on the diff's own leaf: an operation that is not structural
   returns the text diff unchanged; a structural one returns null exactly when
   Path.transform of the diff's path is null, and otherwise the diff with the
   same id, start, end and text on the rebased path. *)
C22_OtherOperation ==
  OffOwnLeaf =>
    LET td == inp.textDiff
        rebased == transform(td.path, inp.op, "forward")
    IN /\ ~Structural(inp.op) => out = Some(td)
       /\ Structural(inp.op) =>
            /\ (out = Null) <=> (rebased = Null)
            /\ rebased # Null =>
                 out = Some([id |-> td.id, path |-> Get(rebased), diff |-> td.diff])

\* the leaf's parent is removed and the diff is destroyed
C22_Witness ==
  /\ OffOwnLeaf
  /\ inp.op.type = "remove_node"
  /\ Len(inp.op.path) < Len(inp.textDiff.path)
  /\ AtOrAbove(inp.op.path, inp.textDiff.path)
  /\ out = Null

----------------------------------------------------------------------------
(* transformPendingPoint against a leaf with a pending diff.  The leaf holds n
   characters before the diff; the diff addresses that text, the point the text
   with the diff applied, the operation the text before the diff. *)

\* leaves of at most MaxPendingLeaf characters before the diff, pending and
\* inserted texts of at most MaxPendingInsert characters
MaxPendingLeaf == 3
MaxPendingInsert == 2

PendingLeafPaths == {<<0>>, <<1>>}
PendingOpPaths == {<<0>>, <<1>>, <<1, 0>>}
PendingTexts == {Filler(k) : k \in 0..MaxPendingInsert}

\* the diffs of a leaf of n characters
PendingDiffsOn(n) ==
  {d \in [start : 0..n, end : 0..n, text : PendingTexts] : d.start <= d.end}

\* the length of a leaf of n characters once diff is applied
LengthAfter(n, diff) == n - (diff.end - diff.start) + Len(diff.text)

\* the operations valid against a leaf of n characters
PendingOps(n) ==
  [type : {"split_node"}, path : PendingOpPaths, position : 0..n]
  \cup [type : {"merge_node"}, path : {<<1>>}, position : 0..MaxPendingLeaf]
  \cup [type : {"insert_text"}, path : PendingLeafPaths, offset : 0..n,
        text : PendingTexts]
  \cup {o \in [type : {"remove_text"}, path : PendingLeafPaths, offset : 0..n,
               text : {Filler(k) : k \in 0..n}] : o.offset + Len(o.text) <= n}
  \cup [type : {"insert_node", "remove_node", "set_node"}, path : PendingOpPaths]
  \cup {o \in [type : {"move_node"}, path : PendingLeafPaths,
               newPath : PendingLeafPaths] : o.path # o.newPath}

PendingInit ==
  /\ \E n \in 0..MaxPendingLeaf : \E d \in PendingDiffsOn(n) :
       \E leaf \in PendingLeafPaths : \E p \in PendingLeafPaths :
         \E offset \in 0..LengthAfter(n, d) : \E op \in PendingOps(n) :
           inp = [length |-> n,
                  pendingDiffs |-> <<[id |-> 1, path |-> leaf, diff |-> d]>>,
                  point |-> [path |-> p, offset |-> offset],
                  op |-> op]
  /\ out = Null
  /\ aux = Null
  /\ pc = "ready"
  /\ tree = EmptyTree
  /\ path = Null
  /\ last = Idle

\* where the point lies: "plain" on a leaf without pending diff or at/before the
\* diff's start, "inside" the diff's text, "after" it
PendingCase(pendingDiffs, point) ==
  LET textDiff == findPendingDiff(pendingDiffs, point)
  IN IF textDiff = Null \/ point.offset <= Get(textDiff).diff.start THEN "plain"
     ELSE IF point.offset <= Get(textDiff).diff.start + Len(Get(textDiff).diff.text)
          THEN "inside"
          ELSE "after"

TransformPendingPoint(case) ==
  /\ pc = "ready"
  /\ PendingCase(inp.pendingDiffs, inp.point) = case
  /\ out' = transformPendingPoint(inp.pendingDiffs, inp.point, inp.op)
  /\ pc' = "done"
  /\ UNCHANGED <<tree, path, last, inp, aux>>

PendingPlainPoint == TransformPendingPoint("plain")
PendingInsidePoint == TransformPendingPoint("inside")
PendingAfterPoint == TransformPendingPoint("after")

PendingNext ==
  \/ PendingPlainPoint
  \/ PendingInsidePoint
  \/ PendingAfterPoint

SpecPending == PendingInit /\ [][PendingNext]_vars

OwnDiff == inp.pendingDiffs[1].diff
\* the point is on the leaf of the pending diff and after the diff's text
AfterDiff ==
  /\ pc = "done"
  /\ inp.pendingDiffs[1].path = inp.point.path
  /\ inp.point.offset > OwnDiff.start + Len(OwnDiff.text)
\* the anchor of a point after the diff, in the coordinates before the diff
AnchorOffset == inp.point.offset - Len(OwnDiff.text) + (OwnDiff.end - OwnDiff.start)
RebasedAnchor ==
  pointTransform([path |-> inp.point.path, offset |-> AnchorOffset], inp.op, "backward")
\* the point r with what the diff adds to offsets after it added back
AddedBack(r) ==
  [path |-> r.path,
   offset |-> r.offset + Len(OwnDiff.text) - (OwnDiff.end - OwnDiff.start)]
SplitOnPointLeaf == inp.op.type = "split_node" /\ inp.op.path = inp.point.path
\* a split of the point's leaf strictly between the diff's start and the anchor
SplitBetween ==
  /\ SplitOnPointLeaf
  /\ OwnDiff.start < inp.op.position
  /\ inp.op.position < AnchorOffset

(* C23 as stated: for a point after the pending diff of its leaf,
   transformPendingPoint is null when the rebase (backward affinity) of the
   anchor at offset - text.length + (end - start) is null; it is the raw
   rebased anchor when the operation is a split_node on the same leaf with a
   position strictly between the diff's start and the anchor; otherwise it is
   the rebased anchor with text.length - (end - start) added back. *)
C23_AsStated ==
  AfterDiff =>
    /\ RebasedAnchor = Null => out = Null
    /\ (RebasedAnchor # Null /\ SplitBetween) => out = RebasedAnchor
    /\ (RebasedAnchor # Null /\ ~SplitBetween) =>
         out = Some(AddedBack(Get(RebasedAnchor)))

(* C23 apart from splits of the point's own leaf: for a point after the
   pending diff of its leaf and any other operation, transformPendingPoint is
   null exactly when the anchor's rebase is null, and otherwise the rebased
   anchor with text.length - (end - start) added back. *)
C23_OtherOperations ==
  (AfterDiff /\ ~SplitOnPointLeaf) =>
    /\ (out = Null) <=> (RebasedAnchor = Null)
    /\ RebasedAnchor # Null => out = Some(AddedBack(Get(RebasedAnchor)))

\* a split between the diff's start and the anchor: the point goes to the new
\* leaf, and the diff's length change is still added to it
C23_Witness ==
  /\ AfterDiff
  /\ SplitBetween
  /\ RebasedAnchor # Null
  /\ Get(RebasedAnchor).path = NextSibling(inp.point.path)
  /\ out = Some(AddedBack(Get(RebasedAnchor)))
  /\ out # RebasedAnchor

(* C24 as stated: for a pending diff with 0 <= start <= end, a point with
   offset >= 0 on its leaf and an operation valid against the leaf's text
   before the diff, transformPendingPoint never returns a negative offset. *)
C24_AsStated ==
  (pc = "done" /\ inp.pendingDiffs[1].path = inp.point.path /\ out # Null) =>
    Get(out).offset >= 0

(* C24 for points at or before the diff's start or inside its text: for such a
   point transformPendingPoint never returns a negative offset. *)
C24_NotAfter ==
  (pc = "done" /\ inp.pendingDiffs[1].path = inp.point.path /\ out # Null
   /\ inp.point.offset <= OwnDiff.start + Len(OwnDiff.text)) =>
    Get(out).offset >= 0

\* a deletion longer than its replacement, and a split before the anchor
C24_Witness ==
  /\ AfterDiff
  /\ SplitOnPointLeaf
  /\ inp.op.position < AnchorOffset
  /\ Len(OwnDiff.text) < OwnDiff.end - OwnDiff.start
  /\ out # Null
  /\ Get(out).offset < 0

====
